---- MODULE Spec2Model ----
(***************************************************************************)
(* Model of the OCR reader component (src/unnamed/part_003): the text      *)
(* post-processor, the pixel loop of preprocessImage, the settings         *)
(* handlers, and one processImage invocation driven step by step against   *)
(* the external Tesseract engine object; and of the email service          *)
(* (src/unnamed/part_001).                                                 *)
(*                                                                         *)
(* Text is a sequence of characters; a character is a one-token string.    *)
(* Characters outside ASCII are written as tokens:                         *)
(*   "CHOON"  U+30FC katakana prolonged sound mark                         *)
(*   "FWTILDE" U+FF5E fullwidth tilde                                      *)
(*   "WAVEDASH" U+301C wave dash                                           *)
(*   "KANA"   a hiragana letter (U+3042)                                   *)
(***************************************************************************)
EXTENDS Integers, Sequences, FiniteSets, TLC

VARIABLES
    selectedImage,          \* useState<File | null>: "none" or a file
    processedImagePreview,  \* useState<string | null>: "none" or the processed image
    extractedText,          \* useState<string>
    isProcessing,           \* useState(false)
    progress,               \* useState<string>
    confidence,             \* useState<number | null>: <<>> is null, <<n>> is n
    error,                  \* useState<string>
    ocrSettings,            \* useState<OCRSettings>
    run,                    \* the processImage invocation in flight or last finished
    ptIn, ptOnce, ptTwice, ptPc,  \* postprocessText applied to a drawn input
    pxIn, pxMid, pxOut, pxDen, pxPc,  \* the pixel loop of preprocessImage on a drawn pixel
    inv, canvas,            \* two processImage invocations side by side, and the canvas
    lastPreset,             \* the applyPreset call since which ocrSettings is untouched
    scale,                  \* the canvas sizing of preprocessImage on a drawn image size
    mail,                   \* the sendHairstyleNotification call in flight or last finished
    sim,                    \* the useState values of HairStyleSimulator
    gen,                    \* the generateImages call in flight or last finished
    monitor,                \* EmailNotificationMonitor: sendHistory and the calls made
    form                    \* AccountCreation: its useState values and the submit

vars == << selectedImage, processedImagePreview, extractedText, isProcessing,
           progress, confidence, error, ocrSettings, run,
           ptIn, ptOnce, ptTwice, ptPc,
           pxIn, pxMid, pxOut, pxDen, pxPc,
           inv, canvas, lastPreset, scale, mail, sim, gen, monitor, form >>

compVars == << selectedImage, processedImagePreview, extractedText, isProcessing,
               progress, confidence, error, ocrSettings >>

ptVars == << ptIn, ptOnce, ptTwice, ptPc >>

pxVars == << pxIn, pxMid, pxOut, pxDen, pxPc >>

\* what an invocation of processImage and the user's handlers leave alone
ovVars == << inv, canvas >>

\* what the settings handlers leave alone
subVars == << ptVars, pxVars, ovVars, scale, mail, sim, gen, monitor, form >>

\* what each part of the model on its own leaves alone
notPt == << pxVars, ovVars, lastPreset, scale, mail, sim, gen, monitor, form >>
notPx == << ptVars, ovVars, lastPreset, scale, mail, sim, gen, monitor, form >>
notOv == << ptVars, pxVars, lastPreset, scale, mail, sim, gen, monitor, form >>
notScale == << ptVars, pxVars, ovVars, lastPreset, mail, sim, gen, monitor, form >>
notMail == << ptVars, pxVars, ovVars, lastPreset, scale, sim, gen, monitor, form >>

\* what the simulator, the monitor and the account form leave alone
ocrVars == << compVars, run, ptVars, pxVars, ovVars, lastPreset, scale >>
notSim == << ocrVars, form >>
notMonitor == << ocrVars, mail, sim, gen, form >>
notForm == << ocrVars, mail, sim, gen, monitor >>

auxVars == << subVars, lastPreset >>

-----------------------------------------------------------------------------
(* Bounds *)

MaxLen == 3

-----------------------------------------------------------------------------
(* Characters and the classes the regular expressions use *)

\* \w of a JavaScript regular expression: [A-Za-z0-9_]
WordChars == { "I", "l", "O", "o", "S", "s", "r", "n", "m", "v", "w", "a", "H", "e",
               "i", "d", "0", "1", "5", "_" }

\* \s of a JavaScript regular expression (also what String.prototype.trim removes)
SpaceChars == { " ", "\n" }

\* ぀-ゟ ゠-ヿ 一-龯 㐀-䶿
JapaneseChars == { "CHOON", "KANA" }

\* characters in none of the classes above
OtherChars == { "|", "-", "FWTILDE", "WAVEDASH" }

Chars == WordChars \cup SpaceChars \cup JapaneseChars \cup OtherChars

RECURSIVE ReplaceClass(_, _, _)
\* s.replace(/[class]/g, to): every character of the class becomes `to`
ReplaceClass(s, class, to) ==
    IF s = << >> THEN << >>
    ELSE (IF Head(s) \in class THEN to ELSE << Head(s) >>)
             \o ReplaceClass(Tail(s), class, to)

RECURSIVE ReplacePair(_, _, _, _)
\* s.replace(/ab/g, to): leftmost non-overlapping occurrences of the pair
ReplacePair(s, a, b, to) ==
    IF Len(s) < 2 THEN s
    ELSE IF s[1] = a /\ s[2] = b
         THEN to \o ReplacePair(SubSeq(s, 3, Len(s)), a, b, to)
         ELSE << s[1] >> \o ReplacePair(Tail(s), a, b, to)

\* the correction list with the '|' to 'l' rule moved to the front
corrections_PipeFirst ==
    << [kind |-> "class", class |-> { "|" },           to |-> << "l" >>],
       [kind |-> "class", class |-> { "O", "o" },      to |-> << "0" >>],
       [kind |-> "class", class |-> { "S", "s" },      to |-> << "5" >>],
       [kind |-> "class", class |-> { "I", "l", "|" }, to |-> << "1" >>] >>

\* The ordered correction list of postprocessText.
corrections ==
    << [kind |-> "class", class |-> { "I", "l", "|" }, to |-> << "1" >>],
       [kind |-> "class", class |-> { "O", "o" },      to |-> << "0" >>],
       [kind |-> "class", class |-> { "S", "s" },      to |-> << "5" >>],
       [kind |-> "class", class |-> { "CHOON" },       to |-> << "CHOON" >>],
       [kind |-> "class", class |-> { "FWTILDE" },     to |-> << "WAVEDASH" >>],
       [kind |-> "pair",  a |-> "r", b |-> "n",        to |-> << "m" >>],
       [kind |-> "pair",  a |-> "v", b |-> "v",        to |-> << "w" >>],
       [kind |-> "class", class |-> { "|" },           to |-> << "l" >>],
       [kind |-> "class",
        class |-> Chars \ (WordChars \cup SpaceChars \cup JapaneseChars),
        to |-> << >>] >>

\* processed.replace(pattern, replacement) for one entry of the list
ApplyRule(rule, s) ==
    IF rule.kind = "pair"
    THEN ReplacePair(s, rule.a, rule.b, rule.to)
    ELSE ReplaceClass(s, rule.class, rule.to)

RECURSIVE ApplyRules(_, _)
\* corrections.forEach(...): the rules in list order, `processed` holding the
\* string between two rules
ApplyRules(rules, s) ==
    IF rules = << >> THEN s
    ELSE CHOOSE result \in { ApplyRules(Tail(rules), processed) :
                                processed \in { ApplyRule(Head(rules), s) } } : TRUE

CollapseSpaces_None(s) == s

RECURSIVE CollapseSpaces(_)
\* processed.replace(/\s+/g, " ")
CollapseSpaces(s) ==
    IF s = << >> THEN << >>
    ELSE IF Head(s) \in SpaceChars
         THEN IF Len(s) >= 2 /\ s[2] \in SpaceChars
              THEN CollapseSpaces(Tail(s))
              ELSE << " " >> \o CollapseSpaces(Tail(s))
         ELSE << Head(s) >> \o CollapseSpaces(Tail(s))

RECURSIVE TrimLeft(_)
TrimLeft(s) ==
    IF s # << >> /\ Head(s) \in SpaceChars THEN TrimLeft(Tail(s)) ELSE s

RECURSIVE TrimRight(_)
TrimRight(s) ==
    IF s # << >> /\ s[Len(s)] \in SpaceChars
    THEN TrimRight(SubSeq(s, 1, Len(s) - 1))
    ELSE s

\* trim that strips the end of the string only
trim_RightOnly(s) == TrimRight(s)

\* String.prototype.trim
trim(s) == TrimRight(TrimLeft(s))

\* postprocessText, reading ocrSettings.enablePostprocessing from `settings`
postprocessText(settings, text) ==
    IF ~settings.enablePostprocessing THEN text
    ELSE CHOOSE result \in
             { trim(CollapseSpaces(processed)) :
                   processed \in { ApplyRules(corrections, text) } } : TRUE

-----------------------------------------------------------------------------
(* Values *)

\* null / undefined, and a present value
Null == << >>
Some(x) == << x >>

DEFAULT_SETTINGS ==
    [ language |-> "jpn+eng", psm |-> 6, oem |-> 3, dpi |-> 300,
      contrast |-> 100, brightness |-> 100,
      enablePreprocessing |-> TRUE, enablePostprocessing |-> TRUE,
      whitelist |-> "", blacklist |-> "" ]

\* values of LANGUAGE_OPTIONS the model selects among
Languages == { "jpn+eng", "eng" }

\* image files the user can pick
Files == { "imgA", "imgB" }

\* the File object handed to the engine as it is
FileImage(f) == [kind |-> "file", of |-> f]

\* the data URL preprocessImage resolves with: the canvas content drawn from
\* `f`, scaled by dpi and transformed with the contrast and brightness in force
DataUrl(f, settings) ==
    [kind |-> "dataurl", of |-> f, dpi |-> settings.dpi,
     contrast |-> settings.contrast, brightness |-> settings.brightness]

\* window.Tesseract as processImage finds it: absent, or an object on which
\* each of createWorker and recognize is a function or is missing
Engines ==
    { Null } \cup
    { Some([createWorker |-> cw, recognize |-> rc]) : cw \in BOOLEAN, rc \in BOOLEAN }

\* members a worker object may expose
WorkerMethods ==
    { "load", "loadLanguage", "initialize", "setParameters", "recognize", "terminate" }

\* Confidences are in tenths of a percent (876 is 87.6); Null when the result
\* carries none. The texts are " a ", "He11o" and "".
\* what a recognize call resolves with: nothing, { text }, or { data: { text, confidence } }
NullResult == [shape |-> "null", text |-> << >>, confidence |-> Null]

Results ==
    { NullResult,
      [shape |-> "flat", text |-> << " ", "a", " " >>, confidence |-> Null],
      [shape |-> "data", text |-> << "H", "e", "1", "1", "o" >>, confidence |-> Null],
      [shape |-> "data", text |-> << " ", "a", " " >>, confidence |-> Some(0)],
      [shape |-> "data", text |-> << " ", "a", " " >>, confidence |-> Some(876)],
      [shape |-> "data", text |-> << >>, confidence |-> Some(876)] }

\* what the static Tesseract.recognize resolves with (declared at line 23 as
\* { data: { text, confidence } }; the code also allows for nothing)
StaticResults == { r \in Results : r.shape # "flat" }

\* Math.round on a value given in tenths
MathRound(tenths) == (tenths + 5) \div 10

\* result.data?.confidence ? Math.round(result.data.confidence) : null
ExtractConfidence(result) ==
    IF result.shape = "data" /\ result.confidence # Null /\ result.confidence[1] # 0
    THEN Some(MathRound(result.confidence[1]))
    ELSE Null

\* result.data?.text || result.text || ""
ExtractText_FlatOnly(result) ==
    IF result.shape = "flat" THEN result.text ELSE << >>

ExtractText(result) ==
    IF result.shape \in { "data", "flat" } THEN result.text ELSE << >>

\* error messages set by the component
NO_ERROR == [kind |-> "", message |-> ""]
ERR_NO_IMAGE == [kind |-> "NoImageSelected", message |-> ""]
ERR_NO_ENGINE == [kind |-> "EngineUnavailable", message |-> ""]
ERR_NOT_IMAGE == [kind |-> "NotAnImage", message |-> ""]
ERR_TOO_LARGE == [kind |-> "FileTooLarge", message |-> ""]
\* `文字認識に失敗しました: ${err.message}`
ErrFailed(message) == [kind |-> "RecognitionFailed", message |-> message]

\* progress messages
PROGRESS_NONE == ""
PROGRESS_PRE == "preprocessing"
PROGRESS_ENGINE == "engine init"
PROGRESS_LANG == "loading language"
PROGRESS_INIT == "initializing"
PROGRESS_READ == "reading"

-----------------------------------------------------------------------------
(* One processImage invocation *)

\* no invocation yet
IdleRun ==
    [ pc |-> "idle", status |-> "none",
      settings |-> DEFAULT_SETTINGS, image |-> Null, eng |-> Null,
      imageToProcess |-> Null,
      worker |-> FALSE,             \* createWorker returned an object
      has |-> {}, lacks |-> {},     \* worker members probed present / missing
      calls |-> << >>,              \* operations called, in order
      threw |-> << >>,              \* operations that threw, in order
      recognizeArg |-> Null,        \* image given to worker.recognize
      staticArgs |-> Null,          \* <<image, language>> given to Tesseract.recognize
      langArgs |-> << >>,           \* languages given to loadLanguage, initialize
      workerResult |-> Null, staticResult |-> Null,
      text |-> << >>, conf |-> Null,  \* the locals text and conf
      rawText |-> << >>,            \* text as the engine stage left it (line 395)
      delivered |-> << >>,          \* texts passed to onTextExtracted
      stages |-> << >>,             \* stages entered, in order
      before |-> << >> ]            \* <<extractedText, confidence>> at the call

InFlight == run.pc \notin { "idle", "done" }

\* `run` records one invocation: user input after it has finished starts afresh
Forget == run' = IdleRun

\* a step of the invocation that only moves it on and sets the progress message
Step(r, prog) ==
    /\ run' = r
    /\ progress' = prog
    /\ UNCHANGED << selectedImage, processedImagePreview, extractedText,
                    isProcessing, confidence, error, ocrSettings >>

\* lines 395-421 on the path without exception: post-processing, the result
\* setters, onTextExtracted, and the finally block
\* if (text && ocrSettings.enablePostprocessing)
ShouldPostprocess_NonEmpty(r) == r.text # << >>
ShouldPostprocess(r) == r.text # << >> /\ r.settings.enablePostprocessing

\* the stage a position of the invocation belongs to
StageOf(pc) == IF pc = "preprocess" THEN "Preprocessing" ELSE "Recognizing"

Complete(r) ==
    LET post  == ShouldPostprocess(r)
        text  == IF post THEN postprocessText(r.settings, r.text) ELSE r.text
        shown == trim(text)
    IN  /\ extractedText' = shown
        /\ confidence' = r.conf
        /\ progress' = PROGRESS_NONE
        /\ isProcessing' = FALSE
        /\ run' = [r EXCEPT !.pc = "done", !.status = "success",
                            !.rawText = r.text, !.text = text,
                            !.calls = @ \o << "setExtractedText", "setConfidence",
                                              "onTextExtracted" >>,
                            !.delivered = Append(@, shown),
                            !.stages = @ \o (IF post THEN << "Postprocessing" >>
                                                     ELSE << >>) \o << "Done" >>]
        /\ UNCHANGED << selectedImage, processedImagePreview, error, ocrSettings >>

\* the outer catch and the finally block (lines 415-421)
\* a catch block that also reported the text obtained so far
Fail_Reporting(r, message) ==
    /\ error' = ErrFailed(message)
    /\ extractedText' = trim(r.text)
    /\ confidence' = r.conf
    /\ progress' = PROGRESS_NONE
    /\ isProcessing' = FALSE
    /\ run' = [r EXCEPT !.pc = "done", !.status = "failed",
                        !.calls = @ \o << "setExtractedText", "setConfidence" >>]
    /\ UNCHANGED << selectedImage, processedImagePreview, ocrSettings >>

\* a failure path without the finally block
Fail_StillProcessing(r, message) ==
    /\ error' = ErrFailed(message)
    /\ progress' = PROGRESS_NONE
    /\ run' = [r EXCEPT !.pc = "done", !.status = "failed"]
    /\ UNCHANGED << selectedImage, processedImagePreview, extractedText,
                    isProcessing, confidence, ocrSettings >>

\* a catch block that also dropped the selected image
Fail_Clearing(r, message) ==
    /\ error' = ErrFailed(message)
    /\ selectedImage' = Null
    /\ progress' = PROGRESS_NONE
    /\ isProcessing' = FALSE
    /\ run' = [r EXCEPT !.pc = "done", !.status = "failed"]
    /\ UNCHANGED << processedImagePreview, extractedText, confidence, ocrSettings >>

Fail(r, message) ==
    /\ error' = ErrFailed(message)
    /\ progress' = PROGRESS_NONE
    /\ isProcessing' = FALSE
    /\ run' = [r EXCEPT !.pc = "done", !.status = "failed"]
    /\ UNCHANGED << selectedImage, processedImagePreview, extractedText,
                    confidence, ocrSettings >>

\* the inner catch (lines 382-392) up to its await: `op` threw on the worker path
\* an inner catch that started the engine stage over
Fallback_Retry(r, op) ==
    Step([r EXCEPT !.threw = Append(@, op), !.pc = "engine"], progress)

Fallback(r, op) ==
    LET r2 == [r EXCEPT !.threw = Append(@, op)]
    IN  IF r.eng[1].recognize
        THEN Step([r2 EXCEPT !.pc = "static"], progress)
        ELSE Complete(r2)

\* lines 366-368: probe worker.recognize
\* worker.recognize called without the hasMethod test
ToRecognize_Unprobed(r) == Step([r EXCEPT !.pc = "recognize"], PROGRESS_READ)

ToRecognize(r) ==
    \E present \in BOOLEAN :
        IF present
        THEN Step([r EXCEPT !.pc = "recognize", !.has = @ \cup { "recognize" }],
                  PROGRESS_READ)
        ELSE Complete([r EXCEPT !.lacks = @ \cup { "recognize" }])

\* lines 354-356: probe worker.setParameters
ToSetParameters(r) ==
    \E present \in BOOLEAN :
        IF present
        THEN Step([r EXCEPT !.pc = "setParameters", !.has = @ \cup { "setParameters" }],
                  progress)
        ELSE ToRecognize([r EXCEPT !.lacks = @ \cup { "setParameters" }])

\* lines 341-349: createWorker returned an object; probe loadLanguage && initialize,
\* then load
AfterCreate(r) ==
    \E ll \in BOOLEAN :
        IF ~ll THEN ToRecognize([r EXCEPT !.lacks = @ \cup { "loadLanguage" }])
        ELSE \E init \in BOOLEAN :
            IF ~init
            THEN ToRecognize([r EXCEPT !.has = @ \cup { "loadLanguage" },
                                       !.lacks = @ \cup { "initialize" }])
            ELSE \E load \in BOOLEAN :
                LET r2 == [r EXCEPT !.has = @ \cup { "loadLanguage", "initialize" }]
                IN  IF load
                    THEN Step([r2 EXCEPT !.pc = "load", !.has = @ \cup { "load" }],
                              progress)
                    ELSE Step([r2 EXCEPT !.pc = "loadLanguage",
                                         !.lacks = @ \cup { "load" }],
                              PROGRESS_LANG)

\* preprocessing entered whatever the setting
FirstStage_Always(settings) == "preprocess"

\* lines 326-329: the stage an invocation enters first
FirstStage(settings) ==
    IF settings.enablePreprocessing THEN "preprocess" ELSE "engine"

\* processImage up to its first await (lines 309-331); `eng` is window.Tesseract
\* as the call finds it
ProcessImage ==
    /\ ~InFlight
    /\ \E eng \in Engines :
        IF selectedImage = Null
        THEN /\ error' = ERR_NO_IMAGE
             /\ run' = [IdleRun EXCEPT !.pc = "done", !.status = "rejected",
                                       !.settings = ocrSettings, !.eng = eng]
             /\ UNCHANGED << selectedImage, processedImagePreview, extractedText,
                             isProcessing, progress, confidence, ocrSettings >>
        ELSE IF eng = Null
        THEN /\ error' = ERR_NO_ENGINE
             /\ run' = [IdleRun EXCEPT !.pc = "done", !.status = "rejected",
                                       !.settings = ocrSettings,
                                       !.image = selectedImage, !.eng = eng]
             /\ UNCHANGED << selectedImage, processedImagePreview, extractedText,
                             isProcessing, progress, confidence, ocrSettings >>
        ELSE /\ isProcessing' = TRUE
             /\ progress' = IF ocrSettings.enablePreprocessing
                            THEN PROGRESS_PRE ELSE PROGRESS_ENGINE
             /\ error' = NO_ERROR
             /\ run' = [IdleRun EXCEPT
                          !.pc = FirstStage(ocrSettings),
                          !.status = "running",
                          !.settings = ocrSettings,
                          !.image = selectedImage,
                          !.eng = eng,
                          !.imageToProcess = Some(FileImage(selectedImage[1])),
                          !.stages = << StageOf(FirstStage(ocrSettings)) >>,
                          !.before = << extractedText, confidence >>]
             /\ UNCHANGED << selectedImage, processedImagePreview, extractedText,
                             confidence, ocrSettings >>
    /\ UNCHANGED auxVars

\* preprocessImage settles (line 328): resolves with the data URL, or rejects
PreprocessDone ==
    /\ run.pc = "preprocess"
    /\ \E ok \in BOOLEAN :
        IF ok
        THEN LET url == DataUrl(run.image[1], run.settings)
             IN  /\ processedImagePreview' = Some(url)
                 /\ progress' = PROGRESS_ENGINE
                 /\ run' = [run EXCEPT !.pc = "engine", !.imageToProcess = Some(url),
                                       !.calls = Append(@, "preprocessImage"),
                                       !.stages = Append(@, StageOf("engine"))]
                 /\ UNCHANGED << selectedImage, extractedText, isProcessing,
                                 confidence, error, ocrSettings >>
        ELSE Fail([run EXCEPT !.calls = Append(@, "preprocessImage"),
                              !.threw = Append(@, "preprocessImage")],
                  "preprocessImage")
    /\ UNCHANGED auxVars

\* lines 331-341: probe Tesseract.createWorker and call it
EnterEngine ==
    /\ run.pc = "engine"
    /\ IF ~run.eng[1].createWorker
       THEN Complete(run)
       ELSE LET r == [run EXCEPT !.calls = Append(@, "createWorker")]
            IN  \E out \in { "throws", "null", "worker" } :
                    CASE out = "throws" -> Fallback(r, "createWorker")
                      [] out = "null"   -> Complete(r)
                      [] out = "worker" -> AfterCreate([r EXCEPT !.worker = TRUE])
    /\ UNCHANGED auxVars

\* await safeCall(worker.load) (line 345)
WorkerLoad ==
    /\ run.pc = "load"
    /\ LET r == [run EXCEPT !.calls = Append(@, "load")]
       IN  \E ok \in BOOLEAN :
               IF ok THEN Step([r EXCEPT !.pc = "loadLanguage"], PROGRESS_LANG)
               ELSE Fallback(r, "load")
    /\ UNCHANGED auxVars

\* await safeCall(worker.loadLanguage, ocrSettings.language) (line 349)
WorkerLoadLanguage ==
    /\ run.pc = "loadLanguage"
    /\ LET r == [run EXCEPT !.calls = Append(@, "loadLanguage"),
                            !.langArgs = Append(@, run.settings.language)]
       IN  \E ok \in BOOLEAN :
               IF ok THEN Step([r EXCEPT !.pc = "initialize"], PROGRESS_INIT)
               ELSE Fallback(r, "loadLanguage")
    /\ UNCHANGED auxVars

\* await safeCall(worker.initialize, ocrSettings.language) (line 352)
WorkerInitialize ==
    /\ run.pc = "initialize"
    /\ LET r == [run EXCEPT !.calls = Append(@, "initialize"),
                            !.langArgs = Append(@, run.settings.language)]
       IN  \E ok \in BOOLEAN :
               IF ok THEN ToSetParameters(r)
               ELSE Fallback(r, "initialize")
    /\ UNCHANGED auxVars

\* await safeCall(worker.setParameters, {...}) (lines 356-362)
WorkerSetParameters ==
    /\ run.pc = "setParameters"
    /\ LET r == [run EXCEPT !.calls = Append(@, "setParameters")]
       IN  \E ok \in BOOLEAN :
               IF ok THEN ToRecognize(r)
               ELSE Fallback(r, "setParameters")
    /\ UNCHANGED auxVars

\* await safeCall(worker.recognize, imageToProcess) and lines 371-379
WorkerRecognize ==
    /\ run.pc = "recognize"
    /\ LET r == [run EXCEPT !.calls = Append(@, "recognize"),
                            !.recognizeArg = run.imageToProcess]
       IN  \/ Fallback(r, "recognize")
           \/ \E result \in Results :
                LET r2 == IF result.shape = "null"
                          THEN [r EXCEPT !.workerResult = Some(result)]
                          ELSE [r EXCEPT !.workerResult = Some(result),
                                         !.text = ExtractText(result),
                                         !.conf = ExtractConfidence(result)]
                IN  \E present \in BOOLEAN :
                        IF present
                        THEN Step([r2 EXCEPT !.pc = "terminate",
                                             !.has = @ \cup { "terminate" }], progress)
                        ELSE Complete([r2 EXCEPT !.lacks = @ \cup { "terminate" }])
    /\ UNCHANGED auxVars

\* await safeCall(worker.terminate) (line 378)
WorkerTerminate ==
    /\ run.pc = "terminate"
    /\ LET r == [run EXCEPT !.calls = Append(@, "terminate")]
       IN  \E ok \in BOOLEAN :
               IF ok THEN Complete(r) ELSE Fallback(r, "terminate")
    /\ UNCHANGED auxVars

\* await safeCall(window.Tesseract.recognize, imageToProcess, language) and
\* lines 387-390; a throw here leaves the inner catch for the outer one
StaticRecognize ==
    /\ run.pc = "static"
    /\ LET r == [run EXCEPT !.calls = Append(@, "Tesseract.recognize"),
                            !.staticArgs = Some(<< run.imageToProcess[1],
                                                   run.settings.language >>)]
       IN  \/ Fail([r EXCEPT !.threw = Append(@, "Tesseract.recognize")],
                   "Tesseract.recognize")
           \/ \E result \in StaticResults :
                IF result.shape = "data"
                THEN Complete([r EXCEPT !.staticResult = Some(result),
                                        !.text = result.text,
                                        !.conf = ExtractConfidence(result)])
                ELSE Complete([r EXCEPT !.staticResult = Some(result)])
    /\ UNCHANGED auxVars

-----------------------------------------------------------------------------
(* User input *)

\* handleImageSelect with a file chosen: `check` is what the type and size tests find
handleImageSelect ==
    /\ ~InFlight
    /\ \E f \in Files, check \in { "ok", "notImage", "tooLarge" } :
        CASE check = "notImage" ->
                /\ error' = ERR_NOT_IMAGE
                /\ UNCHANGED << selectedImage, processedImagePreview, extractedText,
                                confidence >>
          [] check = "tooLarge" ->
                /\ error' = ERR_TOO_LARGE
                /\ UNCHANGED << selectedImage, processedImagePreview, extractedText,
                                confidence >>
          [] check = "ok" ->
                /\ selectedImage' = Some(f)
                /\ error' = NO_ERROR
                /\ extractedText' = << >>
                /\ confidence' = Null
                /\ processedImagePreview' = Null
    /\ Forget
    /\ UNCHANGED << isProcessing, progress, ocrSettings >>
    /\ UNCHANGED auxVars

clearImage ==
    /\ ~InFlight
    /\ selectedImage' = Null
    /\ processedImagePreview' = Null
    /\ extractedText' = << >>
    /\ confidence' = Null
    /\ error' = NO_ERROR
    /\ progress' = PROGRESS_NONE
    /\ Forget
    /\ UNCHANGED << isProcessing, ocrSettings >>
    /\ UNCHANGED auxVars

\* updateSettings(key, value)
updateSettings(key, value) ==
    /\ ~InFlight
    /\ ocrSettings' = [ocrSettings EXCEPT ![key] = value]
    /\ lastPreset' = Null
    /\ Forget
    /\ UNCHANGED << selectedImage, processedImagePreview, extractedText, isProcessing,
                    progress, confidence, error >>
    /\ UNCHANGED subVars

\* setOcrSettings({ ...DEFAULT_SETTINGS, ... }) of the preset; any other name
\* falls through the switch
PresetNames == { "document", "handwriting", "screenshot", "lowquality" }

PresetSettings(preset) ==
    CASE preset = "document" ->
           [DEFAULT_SETTINGS EXCEPT !.psm = 6, !.dpi = 300,
                                    !.contrast = 120, !.brightness = 110]
      [] preset = "handwriting" ->
           [DEFAULT_SETTINGS EXCEPT !.psm = 13, !.dpi = 400,
                                    !.contrast = 140, !.brightness = 105]
      [] preset = "screenshot" ->
           [DEFAULT_SETTINGS EXCEPT !.psm = 3, !.dpi = 200,
                                    !.contrast = 110, !.brightness = 100]
      [] preset = "lowquality" ->
           [DEFAULT_SETTINGS EXCEPT !.psm = 6, !.dpi = 400,
                                    !.contrast = 150, !.brightness = 115,
                                    !.enablePreprocessing = TRUE]

\* a preset layered onto the settings held, not onto DEFAULT_SETTINGS
applyPreset_Layered(preset) ==
    /\ ~InFlight
    /\ ocrSettings' = IF preset \in PresetNames
                      THEN [ocrSettings EXCEPT
                              !.psm = PresetSettings(preset).psm,
                              !.dpi = PresetSettings(preset).dpi,
                              !.contrast = PresetSettings(preset).contrast,
                              !.brightness = PresetSettings(preset).brightness]
                      ELSE ocrSettings
    /\ lastPreset' = Some([name |-> preset, before |-> ocrSettings])
    /\ Forget
    /\ UNCHANGED << selectedImage, processedImagePreview, extractedText, isProcessing,
                    progress, confidence, error >>
    /\ UNCHANGED subVars

applyPreset(preset) ==
    /\ ~InFlight
    /\ ocrSettings' = IF preset \in PresetNames THEN PresetSettings(preset)
                      ELSE ocrSettings
    /\ lastPreset' = Some([name |-> preset, before |-> ocrSettings])
    /\ Forget
    /\ UNCHANGED << selectedImage, processedImagePreview, extractedText, isProcessing,
                    progress, confidence, error >>
    /\ UNCHANGED subVars

ApplyAPreset == \E preset \in PresetNames \cup { "other" } : applyPreset(preset)

\* dpi as updateSettings stores it: the slider's range is 150..600, the
\* function takes any number
DpiValues == { -150, 0, 150, 200, 300, 600 }

SetDpi == \E v \in DpiValues : updateSettings("dpi", v)

\* the settings the user changes between invocations in Spec
UpdateASetting ==
    \/ \E b \in BOOLEAN : updateSettings("enablePreprocessing", b)
    \/ \E b \in BOOLEAN : updateSettings("enablePostprocessing", b)
    \/ \E l \in Languages : updateSettings("language", l)

-----------------------------------------------------------------------------
(* postprocessText on its own *)

\* the characters input texts are drawn from
InputChars == { "I", "|", "O", "S", "r", "n", "v", "a", " ", "-", "FWTILDE", "CHOON" }

RECURSIVE TextsOfLen(_)
TextsOfLen(n) ==
    IF n = 0 THEN { << >> }
    ELSE { Append(t, c) : t \in TextsOfLen(n - 1), c \in InputChars }

\* scenario B's engine text "5O|ar vvind", and a text with a bar, runs of
\* whitespace and whitespace at both ends
ScenarioB == << "5", "O", "|", "a", "r", " ", "v", "v", "i", "n", "d" >>
Lookalikes == << "I", "l", "|", "O", "o", "S", "s" >>
SampleTexts == { ScenarioB, << " ", "|", "a", " ", "\n", " ", "a", "\n" >>, Lookalikes }

\* ocrSettings with post-processing switched on, as by default
PostOn == [DEFAULT_SETTINGS EXCEPT !.enablePostprocessing = TRUE]

PostOnce ==
    /\ ptPc = "input"
    /\ ptOnce' = postprocessText(PostOn, ptIn)
    /\ ptPc' = "once"
    /\ UNCHANGED << ptIn, ptTwice >>
    /\ UNCHANGED compVars
    /\ UNCHANGED run
    /\ UNCHANGED notPt

PostTwice ==
    /\ ptPc = "once"
    /\ ptTwice' = postprocessText(PostOn, ptOnce)
    /\ ptPc' = "twice"
    /\ UNCHANGED << ptIn, ptOnce >>
    /\ UNCHANGED compVars
    /\ UNCHANGED run
    /\ UNCHANGED notPt

-----------------------------------------------------------------------------
(* The pixel loop of preprocessImage *)

\* A channel value inside the loop is a JavaScript number: after the contrast
\* step it need not be an integer, and with contrast = 259 the factor is
\* Infinity, so that a channel is NaN.  A value is a record: the fraction n / d
\* with d > 0, or NaN.  Arithmetic is exact.
Num(n, d) == [n |-> n, d |-> d, nan |-> FALSE]
NaN == [n |-> 0, d |-> 1, nan |-> TRUE]

Min(a, b) == IF a < b THEN a ELSE b
Max(a, b) == IF a > b THEN a ELSE b

\* Math.max(0, Math.min(255, x)) of an integer x
Clamp255(x) == Max(0, Min(255, x))

\* 259 * (ocrSettings.contrast + 255)
ContrastNum(settings) == 259 * (settings.contrast + 255)

\* 255 * (259 - ocrSettings.contrast): the divisor of contrastFactor
ContrastDen(settings) == 255 * (259 - settings.contrast)

brightnessFactor(settings) == settings.brightness - 100

\* r = Math.max(0, Math.min(255, r + brightnessFactor))
Brighten(settings, c) == Clamp255(c + brightnessFactor(settings))

\* r = Math.max(0, Math.min(255, contrastFactor * (r - 128) + 128)), where
\* contrastFactor = num / den.  With den = 0 the factor is +Infinity or
\* -Infinity by the sign of num, or NaN when num = 0 too; Infinity * 0 is NaN
\* and Math.min, Math.max keep a NaN.
ContrastOf(num, den, c) ==
    IF den = 0
    THEN IF num = 0 \/ c = 128 THEN NaN
         ELSE IF (num > 0) = (c > 128) THEN Num(255, 1) ELSE Num(0, 1)
    ELSE LET d == IF den < 0 THEN 0 - den ELSE den
             n == IF den < 0 THEN 0 - num ELSE num
         IN  Num(Max(0, Min(255 * d, n * (c - 128) + 128 * d)), d)

Contrast(settings, c) == ContrastOf(ContrastNum(settings), ContrastDen(settings), c)

\* Math.round(0.299 * r + 0.587 * g + 0.114 * b): the three values have the
\* same denominator d; Math.round(x) is floor(x + 1/2); NaN stays NaN.  Each
\* value is split into its integer part and its fraction f / d, so that
\* 1000 * x + 500 = whole + part / d.
Gray(r, g, b) ==
    IF r.nan \/ g.nan \/ b.nan THEN NaN
    ELSE LET d == r.d
             whole == 299 * (r.n \div d) + 587 * (g.n \div d) + 114 * (b.n \div d) + 500
             part == 299 * (r.n % d) + 587 * (g.n % d) + 114 * (b.n % d)
         IN  Num((whole \div 1000) + (((whole % 1000) * d + part) \div (1000 * d)), 1)

\* gray > 128 ? 255 : 0: a comparison with NaN is false
Binary_GrayOnly(gray) == IF gray.nan THEN 0 ELSE gray.n
Binary(gray) == IF (~gray.nan) /\ gray.n > 128 THEN 255 ELSE 0

\* the channels after the brightness and the contrast step
Adjusted(settings, px) ==
    [i \in 1..3 |-> Contrast(settings, Brighten(settings, px[i]))]

\* one iteration of the loop on the pixel px = << r, g, b, a >>
TransformPixel(settings, px) ==
    LET m == Adjusted(settings, px)
        binary == Binary(Gray(m[1], m[2], m[3]))
    IN  << binary, binary, binary, px[4] >>

\* the channel values and alpha values pixels are drawn from
Channels == { 0, 127, 128, 129, 255 }
Alphas == { 0, 255 }
Pixels == { << r, g, b, a >> : r \in Channels, g \in Channels, b \in Channels, a \in Alphas }

\* contrast and brightness as updateSettings stores them: the sliders'
\* ranges are 50..200 and 50..150, the function takes any number
ContrastValues == { -255, 0, 50, 100, 200, 257, 258, 259, 300 }
BrightnessValues == { -200, 50, 100, 150, 400 }

SetContrast == \E v \in ContrastValues : updateSettings("contrast", v) /\ pxPc = "idle"
SetBrightness == \E v \in BrightnessValues : updateSettings("brightness", v) /\ pxPc = "idle"

\* the loop body applied to a pixel of the drawn image
PreprocessPixel ==
    /\ pxPc = "idle"
    /\ \E px \in Pixels :
         /\ pxIn' = px
         /\ IF ocrSettings.enablePreprocessing
            THEN /\ pxDen' = Some(ContrastDen(ocrSettings))
                 /\ pxMid' = Adjusted(ocrSettings, px)
                 /\ pxOut' = TransformPixel(ocrSettings, px)
            ELSE /\ pxDen' = Null
                 /\ pxMid' = [i \in 1..3 |-> Num(px[i], 1)]
                 /\ pxOut' = px
    /\ pxPc' = "done"
    /\ UNCHANGED compVars
    /\ UNCHANGED run
    /\ UNCHANGED notPx

-----------------------------------------------------------------------------
(* The canvas sizing of preprocessImage *)

\* the widths and heights images are drawn from
Dims == { 1, 100, 640 }

IdleScale == [pc |-> "idle", dpi |-> 0, img |-> << >>, canvas |-> << >>]

\* canvas.width = img.width * scale with scale = Math.max(1, ocrSettings.dpi / 150):
\* canvas.width and canvas.height are unsigned long attributes, so the number
\* assigned loses its fraction
CanvasSize_Unscaled(n, dpi) == n
CanvasSize(n, dpi) == IF dpi <= 150 THEN n ELSE (n * dpi) \div 150

\* img.onload up to drawImage, on an image of a drawn size
SizeCanvas ==
    /\ scale.pc = "idle"
    /\ \E w \in Dims, h \in Dims :
         scale' = [pc |-> "done", dpi |-> ocrSettings.dpi, img |-> << w, h >>,
                   canvas |-> << CanvasSize(w, ocrSettings.dpi),
                                 CanvasSize(h, ocrSettings.dpi) >>]
    /\ UNCHANGED compVars
    /\ UNCHANGED run
    /\ UNCHANGED notScale

-----------------------------------------------------------------------------
(* The email service (src/unnamed/part_001) *)

RETRY_CONFIG == [maxRetries |-> 3, baseDelay |-> 1000, maxDelay |-> 10000]

RECURSIVE Pow2(_)
Pow2(n) == IF n = 0 THEN 1 ELSE 2 * Pow2(n - 1)

\* a delay growing by baseDelay per retry
calculateDelay_Linear(retryCount) ==
    Min(RETRY_CONFIG.baseDelay * (retryCount + 1), RETRY_CONFIG.maxDelay)

\* Math.min(baseDelay * Math.pow(2, retryCount), maxDelay)
calculateDelay(retryCount) ==
    Min(RETRY_CONFIG.baseDelay * Pow2(retryCount), RETRY_CONFIG.maxDelay)

\* [^\s@]: neither whitespace nor '@'
IsAddressChar(c) == c \notin SpaceChars /\ c # "@"

\* /^[^\s@]+@[^\s@]+\.[^\s@]+$/.test(email): some '@' at i and some '.' at j
\* split the text into three non-empty runs of address characters
validateEmail(email) ==
    \E i, j \in DOMAIN email :
        /\ 1 < i /\ i + 1 < j /\ j < Len(email)
        /\ email[i] = "@" /\ email[j] = "."
        /\ \A k \in DOMAIN email : (k # i /\ k # j) => IsAddressChar(email[k])

\* data.userName?.trim() is truthy; Null is a missing userName
HasUserName(userName) == userName # Null /\ trim(userName[1]) # << >>

\* the userEmail and userName sendHairstyleNotification is called with
UserEmails == { << "a", "@", "b", ".", "c" >>, << "a", "@", "b" >>, << >> }
UserNames == { Some(<< "n" >>), Some(<< " " >>), Null }
EmailData == [userEmail : UserEmails, userName : UserNames]

EmailResult(success, message, err) ==
    [success |-> success, message |-> message, error |-> err]

\* what fetch and the web app do with a request: the app answers success, or
\* answers a failure with an error code of its own (possibly none), or the
\* response is not ok, or the request is aborted after 30 s, or fetch fails
ServerErrors == { "", "INVALID_EMAIL", "QUOTA_EXCEEDED" }
Outcomes ==
    { [kind |-> "sent", code |-> ""], [kind |-> "http", code |-> ""],
      [kind |-> "abort", code |-> ""], [kind |-> "fetchFailed", code |-> ""] }
    \cup { [kind |-> "refused", code |-> e] : e \in ServerErrors }

\* the EmailResult of one attemptEmailSend(data) under an outcome
AttemptResult(data, outcome) ==
    IF ~validateEmail(data.userEmail)
    THEN EmailResult(FALSE, "invalid address", Some("INVALID_EMAIL"))
    ELSE IF ~HasUserName(data.userName)
    THEN EmailResult(FALSE, "no user name", Some("MISSING_USERNAME"))
    ELSE CASE outcome.kind = "sent" -> EmailResult(TRUE, "sent", Null)
           [] outcome.kind = "refused" ->
                EmailResult(FALSE, "send failed",
                            Some(IF outcome.code = "" THEN "UNKNOWN_ERROR"
                                 ELSE outcome.code))
           [] outcome.kind = "http" ->
                EmailResult(FALSE, "HTTP status", Some("NETWORK_ERROR"))
           [] outcome.kind = "abort" ->
                EmailResult(FALSE, "timed out", Some("TIMEOUT"))
           [] outcome.kind = "fetchFailed" ->
                EmailResult(FALSE, "network problem", Some("NETWORK_ERROR"))

\* the errors after which the loop breaks
NonRetryable_None == {}
NonRetryable == { "INVALID_EMAIL", "MISSING_USERNAME" }

IdleMail ==
    [ pc |-> "idle", data |-> Null,
      retryCount |-> 0,             \* the loop variable
      lastResult |-> Null,
      attempts |-> << >>,           \* results of attemptEmailSend, in order
      retries |-> << >>,            \* << retryCount, error >> given to onRetry, in order
      delays |-> << >>,             \* milliseconds given to delay, in order
      returned |-> Null ]           \* the EmailResult returned, with its retryCount

\* lastResult.error || "UNKNOWN_ERROR"
ErrorOrUnknown(result) ==
    IF result.error = Null \/ result.error = Some("") THEN "UNKNOWN_ERROR"
    ELSE result.error[1]

\* { ...lastResult, retryCount }
WithRetryCount(result, retryCount) ==
    [success |-> result.success, message |-> result.message,
     error |-> result.error, retryCount |-> retryCount]

\* lines 130-133: the call with `data`, up to the first loop round
StartSend(data) ==
    mail' = [IdleMail EXCEPT
               !.pc = "attempt", !.data = Some(data),
               !.lastResult = Some(EmailResult(FALSE, "not run", Null))]

sendHairstyleNotification ==
    /\ mail.pc = "idle"
    /\ \E data \in EmailData : StartSend(data)
    /\ UNCHANGED compVars
    /\ UNCHANGED run
    /\ UNCHANGED notMail

\* the top of a loop round after the first: onRetry, then delay
RetryRound ==
    /\ mail.pc = "retry"
    /\ mail' = [mail EXCEPT
                  !.pc = "attempt",
                  !.retries = Append(@, << mail.retryCount,
                                           ErrorOrUnknown(mail.lastResult[1]) >>),
                  !.delays = Append(@, calculateDelay(mail.retryCount - 1))]

RetryDelay ==
    /\ RetryRound
    /\ UNCHANGED compVars
    /\ UNCHANGED run
    /\ UNCHANGED notMail

\* attemptEmailSend resolves, and the rest of the loop round
AttemptRound(outcomes) ==
    /\ mail.pc = "attempt"
    /\ \E outcome \in outcomes :
         LET result == AttemptResult(mail.data[1], outcome)
             m == [mail EXCEPT !.lastResult = Some(result),
                               !.attempts = Append(@, result)]
         IN  IF result.success
             THEN mail' = [m EXCEPT !.pc = "done",
                             !.returned = Some(WithRetryCount(result, mail.retryCount))]
             ELSE IF result.error[1] \in NonRetryable
                     \/ mail.retryCount + 1 > RETRY_CONFIG.maxRetries
             THEN mail' = [m EXCEPT !.pc = "done",
                             !.returned = Some(WithRetryCount(result,
                                                              RETRY_CONFIG.maxRetries))]
             ELSE mail' = [m EXCEPT !.pc = "retry", !.retryCount = @ + 1]

attemptEmailSend ==
    /\ AttemptRound(Outcomes)
    /\ UNCHANGED compVars
    /\ UNCHANGED run
    /\ UNCHANGED notMail

-----------------------------------------------------------------------------
(* EmailNotificationMonitor *)

IdleMonitor ==
    [ sendHistory |-> << >>,
      calls |-> 0 ]                 \* recordSend calls made so far

\* the record pushed by the n-th call; its timestamp is the call's ordinal
HistoryRecord(n, userEmail, result) ==
    [ timestamp |-> n, userEmail |-> userEmail, success |-> result.success,
      error |-> result.error, retryCount |-> result.retryCount ]

\* a history cut to its oldest 100 records
SliceLast_First(h, n) == SubSeq(h, 1, n)

\* Array.prototype.slice(-n) of an array longer than n
SliceLast(h, n) == SubSeq(h, Len(h) - n + 1, Len(h))

\* recordSend(userEmail, result) on the monitor m
recordSend(m, userEmail, result) ==
    LET pushed == Append(m.sendHistory,
                         HistoryRecord(m.calls + 1, userEmail, result))
    IN  [ sendHistory |-> IF Len(pushed) > 100 THEN SliceLast(pushed, 100)
                          ELSE pushed,
          calls |-> m.calls + 1 ]

\* the calls made to the monitor: the first MaxVaried draw their arguments
\* freely, every later one repeats the arguments of the call before
MaxCalls == 103
MaxVaried == 2

SendResults ==
    { WithRetryCount(EmailResult(TRUE, "sent", Null), 0),
      WithRetryCount(EmailResult(FALSE, "timed out", Some("TIMEOUT")),
                     RETRY_CONFIG.maxRetries) }

\* the arguments of the call that pushed the record
ArgsOf(record) ==
    << record.userEmail,
       [success |-> record.success, error |-> record.error,
        retryCount |-> record.retryCount] >>

RecordASend ==
    /\ monitor.calls < MaxCalls
    /\ \E userEmail \in { << "a", "@", "b", ".", "c" >> }, result \in SendResults :
         /\ \/ monitor.calls < MaxVaried
            \/ /\ monitor.sendHistory # << >>
               /\ ArgsOf(monitor.sendHistory[Len(monitor.sendHistory)])
                 = << userEmail, [success |-> result.success, error |-> result.error,
                                  retryCount |-> result.retryCount] >>
         /\ monitor' = recordSend(monitor, userEmail, result)
    /\ UNCHANGED notMonitor

-----------------------------------------------------------------------------
(* HairStyleSimulator *)

\* the list generateImages puts in generatedImages (line 88)
images == << "/images/hairstyle-front.png", "/images/hairstyle-side.png",
             "/images/hairstyle-back.png" >>

\* the accounts AccountCreation hands to handleAccountCreated
Accounts ==
    { [name |-> << "n" >>, email |-> << "a", "@", "b", ".", "c" >>],
      [name |-> << "m" >>, email |-> << "c", "@", "b", ".", "a" >>] }

NoMessage == << >>

IdleSim ==
    [ activeTab |-> "account",
      userAccount |-> Null,
      generatedImages |-> << >>,
      currentImageIndex |-> 0,
      isGenerating |-> FALSE,
      emailStatus |-> "idle",
      emailMessage |-> NoMessage,
      retryCount |-> 0 ]

IdleGen ==
    [ pc |-> "idle",
      account |-> Null,             \* userAccount of the render the call was made in
      statuses |-> << >>,           \* the values emailStatus changed to during the call
      recorded |-> 0,               \* recordSend calls made by the call
      loggedOut |-> FALSE ]         \* handleLogout ran while the call was in flight

Generating == gen.pc \in { "delay", "send" }

\* the trace of emailStatus after setEmailStatus(status)
Took(statuses, status) ==
    IF statuses # << >> /\ statuses[Len(statuses)] = status THEN statuses
    ELSE Append(statuses, status)

\* what the requests of a notification meet in SpecSim: sent, timed out, or
\* refused by the web app as an invalid address
SimOutcomes ==
    { [kind |-> "sent", code |-> ""], [kind |-> "abort", code |-> ""],
      [kind |-> "refused", code |-> "INVALID_EMAIL"] }

\* the number of generateImages calls followed in SpecSim
MaxRuns == 2

\* handleAccountCreated(email, name), reachable while AccountCreation is shown
handleAccountCreated ==
    /\ sim.userAccount = Null
    /\ \E account \in Accounts :
         sim' = [sim EXCEPT !.userAccount = Some(account), !.activeTab = "upload"]
    /\ UNCHANGED << gen, monitor, mail >>
    /\ UNCHANGED notSim

\* generateImages up to the first await (lines 80-91); its button is in the
\* card shown with an account and is disabled while isGenerating
generateImages ==
    /\ sim.userAccount # Null
    /\ ~sim.isGenerating
    /\ monitor.calls < MaxRuns
    /\ sim' = [sim EXCEPT !.isGenerating = TRUE, !.emailStatus = "idle",
                          !.emailMessage = NoMessage, !.retryCount = 0]
    /\ gen' = [IdleGen EXCEPT !.pc = "delay", !.account = sim.userAccount,
                              !.statuses = << "idle" >>]
    /\ UNCHANGED << monitor, mail >>
    /\ UNCHANGED notSim

\* the 2000 ms timer fires: lines 93-101 up to the first await of
\* sendHairstyleNotification
GenerationDelay ==
    /\ gen.pc = "delay"
    /\ IF gen.account # Null
       THEN /\ sim' = [sim EXCEPT !.generatedImages = images, !.activeTab = "result",
                                  !.emailStatus = "sending",
                                  !.emailMessage = << "sending" >>]
            /\ gen' = [gen EXCEPT !.pc = "send", !.statuses = Took(@, "sending")]
            /\ StartSend([userEmail |-> gen.account[1].email,
                          userName |-> Some(gen.account[1].name)])
       ELSE /\ sim' = [sim EXCEPT !.generatedImages = images, !.activeTab = "result",
                                  !.isGenerating = FALSE]
            /\ gen' = [gen EXCEPT !.pc = "done"]
            /\ UNCHANGED mail
    /\ UNCHANGED monitor
    /\ UNCHANGED notSim

\* a loop round of sendHairstyleNotification after the first: the onRetry
\* callback of lines 108-112, then the delay
NotificationRetry ==
    /\ gen.pc = "send"
    /\ RetryRound
    /\ sim' = [sim EXCEPT !.emailStatus = "retrying",
                          !.retryCount = mail.retryCount,
                          !.emailMessage = << "retrying", mail.retryCount >>]
    /\ gen' = [gen EXCEPT !.statuses = Took(@, "retrying")]
    /\ UNCHANGED monitor
    /\ UNCHANGED notSim

\* attemptEmailSend resolves; when the loop ends with it, lines 116-135 follow
NotificationAttempt ==
    /\ gen.pc = "send"
    /\ AttemptRound(SimOutcomes)
    /\ IF mail'.pc = "done"
       THEN LET emailResult == mail'.returned[1]
                status == IF emailResult.success THEN "success" ELSE "error"
            IN  /\ monitor' = recordSend(monitor, gen.account[1].email, emailResult)
                /\ sim' = [sim EXCEPT
                             !.emailStatus = status,
                             !.emailMessage =
                                 IF emailResult.success
                                 THEN << "sent", emailResult.retryCount >>
                                 ELSE << "failed", emailResult.message >>,
                             !.isGenerating = FALSE]
                /\ gen' = [gen EXCEPT !.pc = "done",
                                      !.statuses = Took(@, status),
                                      !.recorded = @ + 1]
       ELSE UNCHANGED << sim, gen, monitor >>
    /\ UNCHANGED notSim

\* (prev) => (prev === length - 1 ? 0 : prev + 1)
NextIndex_NoWrap(prev, length) == prev + 1
NextIndex(prev, length) == IF prev = length - 1 THEN 0 ELSE prev + 1

\* (prev) => (prev === 0 ? length - 1 : prev - 1)
PrevIndex(prev, length) == IF prev = 0 THEN length - 1 ELSE prev - 1

\* ResultViewer, which holds the two buttons, is rendered for a non-empty
\* generatedImages only (line 271)
handleNextImage ==
    /\ sim.userAccount # Null
    /\ sim.generatedImages # << >>
    /\ sim' = [sim EXCEPT !.currentImageIndex =
                              NextIndex(@, Len(sim.generatedImages))]
    /\ UNCHANGED << gen, monitor, mail >>
    /\ UNCHANGED notSim

handlePrevImage ==
    /\ sim.userAccount # Null
    /\ sim.generatedImages # << >>
    /\ sim' = [sim EXCEPT !.currentImageIndex =
                              PrevIndex(@, Len(sim.generatedImages))]
    /\ UNCHANGED << gen, monitor, mail >>
    /\ UNCHANGED notSim

\* handleLogout; its button is in the card shown with an account and is not
\* disabled while isGenerating
handleLogout ==
    /\ sim.userAccount # Null
    /\ sim' = [sim EXCEPT !.userAccount = Null, !.activeTab = "account",
                          !.generatedImages = << >>, !.currentImageIndex = 0,
                          !.emailStatus = "idle", !.emailMessage = NoMessage,
                          !.retryCount = 0]
    /\ gen' = IF Generating
              THEN [gen EXCEPT !.loggedOut = TRUE, !.statuses = Took(@, "idle")]
              ELSE gen
    /\ UNCHANGED << monitor, mail >>
    /\ UNCHANGED notSim

-----------------------------------------------------------------------------
(* AccountCreation *)

EmptyForm == [name |-> << >>, email |-> << >>, password |-> << >>,
              confirmPassword |-> << >>]

IdleForm ==
    [ formData |-> EmptyForm,
      errors |-> {},                \* the fields of `errors` with a message
      isLoading |-> FALSE,
      pc |-> "idle",
      submitted |-> Null,           \* formData of the render handleSubmit ran in
      stored |-> Null,              \* localStorage "userAccount"
      created |-> << >> ]           \* << email, name >> of each onAccountCreated call

\* the values typed into each field
Passwords == { << >>, << "p", "p", "p", "p", "p" >>,
               << "p", "p", "p", "p", "p", "p" >>,
               << "q", "q", "q", "q", "q", "q" >> }
FieldValues ==
    [ name |-> { << >>, << " " >>, << "n" >> },
      email |-> { << >>, << " " >>, << "a", "@", "b" >>,
                  << "a", "@", "b", ".", "c" >> },
      password |-> Passwords,
      confirmPassword |-> Passwords ]

\* validateForm with the confirmPassword test left out
validateForm_NoConfirm(data) ==
    (IF trim(data.name) = << >> THEN { "name" } ELSE {})
    \cup (IF trim(data.email) = << >> \/ ~validateEmail(data.email)
          THEN { "email" } ELSE {})
    \cup (IF Len(data.password) < 6 THEN { "password" } ELSE {})

\* validateForm: the keys of newErrors
validateForm(data) ==
    (IF trim(data.name) = << >> THEN { "name" } ELSE {})
    \cup (IF trim(data.email) = << >> THEN { "email" }
          ELSE IF ~validateEmail(data.email) THEN { "email" } ELSE {})
    \cup (IF data.password = << >> THEN { "password" }
          ELSE IF Len(data.password) < 6 THEN { "password" } ELSE {})
    \cup (IF data.password # data.confirmPassword THEN { "confirmPassword" } ELSE {})

\* the inputs stay enabled while isLoading
handleInputChange ==
    /\ form.pc # "done"
    /\ \E field \in DOMAIN FieldValues :
         \E value \in FieldValues[field] :
            form' = [form EXCEPT !.formData[field] = value,
                                 !.errors = @ \ { field }]
    /\ UNCHANGED notForm

\* handleSubmit up to the await (lines 53-62); the submit button is disabled
\* while isLoading
handleSubmit ==
    /\ form.pc # "done"
    /\ ~form.isLoading
    /\ LET newErrors == validateForm(form.formData)
       IN  IF newErrors # {}
           THEN form' = [form EXCEPT !.errors = newErrors, !.pc = "rejected",
                                     !.submitted = Some(form.formData)]
           ELSE form' = [form EXCEPT !.errors = newErrors, !.pc = "saving",
                                     !.isLoading = TRUE,
                                     !.submitted = Some(form.formData)]
    /\ UNCHANGED notForm

\* the 1000 ms timer fires: lines 65-79; localStorage.setItem may throw
\* (storage full or unavailable), which the catch block logs
AccountSaved ==
    /\ form.pc = "saving"
    /\ \E thrown \in BOOLEAN :
         IF thrown
         THEN form' = [form EXCEPT !.isLoading = FALSE, !.pc = "failed"]
         ELSE form' = [form EXCEPT
                         !.stored = Some([name |-> form.submitted[1].name,
                                          email |-> form.submitted[1].email]),
                         !.created = Append(@, << form.submitted[1].email,
                                                  form.submitted[1].name >>),
                         !.isLoading = FALSE,
                         !.pc = "done"]
    /\ UNCHANGED notForm

-----------------------------------------------------------------------------
(* Two invocations of processImage side by side *)

\* processImage has no guard of its own against a second call: the button is
\* hidden while isProcessing, the function is not.  Each call is a closure over
\* the selectedImage and ocrSettings of the render it was made in; the canvas
\* (canvasRef) and the component state are the same for both.
\* The engine here is reduced to one shape: createWorker returns a worker whose
\* recognize resolves { data: { text, confidence } } for the image it is given
\* and whose operations never throw.

Slots == 1..2

IdleInvocation ==
    [ pc |-> "idle",
      image |-> Null, settings |-> DEFAULT_SETTINGS,   \* the closure's values
      imageToProcess |-> Null,
      recognizeArg |-> Null,        \* image given to worker.recognize
      text |-> << >>, conf |-> Null,
      shownFor |-> Null ]           \* <<selectedImage>> when the result was set

\* the text the engine reads in an image: that of the file it was made from
TextOf(image) == << image.of >>

\* the ocrSettings preprocessImage reads at img.onload: those of the closure
SettingsSeen_Current(own, current) == current
SettingsSeen(own, current) == own

OvProcessImage(i) ==
    /\ inv[i].pc = "idle"
    /\ IF selectedImage = Null
       THEN /\ error' = ERR_NO_IMAGE
            /\ inv' = [inv EXCEPT ![i].pc = "done"]
            /\ UNCHANGED << isProcessing, progress >>
       ELSE /\ isProcessing' = TRUE
            /\ progress' = IF ocrSettings.enablePreprocessing
                           THEN PROGRESS_PRE ELSE PROGRESS_ENGINE
            /\ error' = NO_ERROR
            /\ inv' = [inv EXCEPT ![i] =
                         [IdleInvocation EXCEPT
                            !.pc = IF FirstStage(ocrSettings) = "preprocess"
                                   THEN "preprocess" ELSE "recognize",
                            !.image = selectedImage,
                            !.settings = ocrSettings,
                            !.imageToProcess = Some(FileImage(selectedImage[1]))]]
    /\ UNCHANGED << selectedImage, processedImagePreview, extractedText,
                    confidence, ocrSettings, run, canvas >>
    /\ UNCHANGED notOv

\* img.onload: draw, transform, putImageData and toDataURL in one callback
OvPreprocess(i) ==
    /\ inv[i].pc = "preprocess"
    /\ LET seen == SettingsSeen(inv[i].settings, ocrSettings)
           drawn == DataUrl(inv[i].image[1], seen)
       IN  /\ canvas' = Some(drawn)
           /\ processedImagePreview' = canvas'
           /\ inv' = [inv EXCEPT ![i].pc = "recognize",
                                 ![i].imageToProcess = canvas']
    /\ progress' = PROGRESS_ENGINE
    /\ UNCHANGED << selectedImage, extractedText, isProcessing, confidence, error,
                    ocrSettings, run >>
    /\ UNCHANGED notOv

\* createWorker up to the result of worker.recognize
OvRecognize(i) ==
    /\ inv[i].pc = "recognize"
    /\ LET result == [shape |-> "data", text |-> TextOf(inv[i].imageToProcess[1]),
                      confidence |-> Some(876)]
       IN  inv' = [inv EXCEPT ![i].pc = "report",
                              ![i].recognizeArg = inv[i].imageToProcess,
                              ![i].text = ExtractText(result),
                              ![i].conf = ExtractConfidence(result)]
    /\ progress' = PROGRESS_READ
    /\ UNCHANGED << selectedImage, processedImagePreview, extractedText, isProcessing,
                    confidence, error, ocrSettings, run, canvas >>
    /\ UNCHANGED notOv

\* worker.terminate resolved: post-processing, the result, finally
OvReport(i) ==
    /\ inv[i].pc = "report"
    /\ LET r == inv[i]
           text == IF ShouldPostprocess(r) THEN postprocessText(r.settings, r.text)
                   ELSE r.text
       IN  /\ extractedText' = trim(text)
           /\ confidence' = r.conf
           /\ inv' = [inv EXCEPT ![i].pc = "done", ![i].shownFor = Some(selectedImage)]
    /\ progress' = PROGRESS_NONE
    /\ isProcessing' = FALSE
    /\ UNCHANGED << selectedImage, processedImagePreview, error, ocrSettings, run, canvas >>
    /\ UNCHANGED notOv

\* the dpi slider moved between the two calls
OvSetDpi == \E v \in { 300, 600 } : updateSettings("dpi", v)

-----------------------------------------------------------------------------
(* Specifications *)

\* Spec: invocations of processImage one after another, each against whatever
\* engine object it finds, with user input (image selection, clearing, settings)
\* between them.
\* SpecPost: postprocessText applied twice to every text up to MaxLen characters.

\* SpecOverlap: two invocations of processImage interleaved with each other and
\* with image selection, clearing and the dpi slider.
\* SpecScale: the canvas sizing of preprocessImage under the dpi updateSettings
\* has stored.
\* SpecMail: one call of sendHairstyleNotification of the email service.
\* SpecSettings: the settings handlers, updateSettings and applyPreset, alone.
\* SpecPixel: the pixel loop of preprocessImage applied to a pixel, under the
\* contrast and brightness updateSettings has stored.

PtOff == ptIn = << >> /\ ptOnce = << >> /\ ptTwice = << >> /\ ptPc = "off"

OvOff == inv = [i \in Slots |-> IdleInvocation] /\ canvas = Null

ScaleOff == scale = IdleScale

MailOff == mail = IdleMail
AppOff == sim = IdleSim /\ gen = IdleGen /\ monitor = IdleMonitor /\ form = IdleForm

PxOff == pxIn = << >> /\ pxMid = << >> /\ pxOut = << >> /\ pxDen = Null

InitComponent ==
    /\ selectedImage = Null
    /\ processedImagePreview = Null
    /\ extractedText = << >>
    /\ isProcessing = FALSE
    /\ progress = PROGRESS_NONE
    /\ confidence = Null
    /\ error = NO_ERROR
    /\ ocrSettings = DEFAULT_SETTINGS
    /\ run = IdleRun
    /\ lastPreset = Null

Init ==
    /\ InitComponent
    /\ PtOff
    /\ PxOff /\ pxPc = "off"
    /\ OvOff /\ ScaleOff /\ MailOff /\ AppOff

Next ==
    \/ ProcessImage
    \/ PreprocessDone
    \/ EnterEngine
    \/ WorkerLoad
    \/ WorkerLoadLanguage
    \/ WorkerInitialize
    \/ WorkerSetParameters
    \/ WorkerRecognize
    \/ WorkerTerminate
    \/ StaticRecognize
    \/ handleImageSelect
    \/ clearImage
    \/ UpdateASetting

Spec == Init /\ [][Next]_vars

\* HairStyleSimulator after mount: the account read from localStorage, if any
InitSim ==
    /\ InitComponent
    /\ PtOff
    /\ PxOff /\ pxPc = "off"
    /\ OvOff /\ ScaleOff /\ MailOff
    /\ \E saved \in { Null } \cup { Some(account) : account \in Accounts } :
          sim = [IdleSim EXCEPT !.userAccount = saved,
                                !.activeTab = IF saved = Null THEN "account"
                                              ELSE "upload"]
    /\ gen = IdleGen /\ monitor = IdleMonitor /\ form = IdleForm

NextSim ==
    \/ handleAccountCreated
    \/ generateImages
    \/ GenerationDelay
    \/ NotificationRetry
    \/ NotificationAttempt
    \/ handleNextImage
    \/ handlePrevImage
    \/ handleLogout

SpecSim == InitSim /\ [][NextSim]_vars

NextMonitor == RecordASend

SpecMonitor == Init /\ [][NextMonitor]_vars

NextForm ==
    \/ handleInputChange
    \/ handleSubmit
    \/ AccountSaved

SpecForm == Init /\ [][NextForm]_vars

\* the awaits of an invocation: the image load and every engine call
Resolve ==
    \/ PreprocessDone
    \/ EnterEngine
    \/ WorkerLoad
    \/ WorkerLoadLanguage
    \/ WorkerInitialize
    \/ WorkerSetParameters
    \/ WorkerRecognize
    \/ WorkerTerminate
    \/ StaticRecognize

\* the two switches that decide which stages an invocation goes through
ToggleAStage ==
    \/ \E b \in BOOLEAN : updateSettings("enablePreprocessing", b)
    \/ \E b \in BOOLEAN : updateSettings("enablePostprocessing", b)

NextLive ==
    \/ ProcessImage
    \/ Resolve
    \/ handleImageSelect
    \/ ToggleAStage

\* invocations whose every await eventually resolves or rejects
Fairness ==
    /\ WF_vars(PreprocessDone)
    /\ WF_vars(EnterEngine)
    /\ WF_vars(WorkerLoad)
    /\ WF_vars(WorkerLoadLanguage)
    /\ WF_vars(WorkerInitialize)
    /\ WF_vars(WorkerSetParameters)
    /\ WF_vars(WorkerRecognize)
    /\ WF_vars(WorkerTerminate)
    /\ WF_vars(StaticRecognize)

SpecLive == Init /\ [][NextLive]_vars /\ Fairness

InitPost ==
    /\ InitComponent
    /\ ptIn \in UNION { TextsOfLen(n) : n \in 0..MaxLen } \cup SampleTexts
    /\ ptOnce = << >> /\ ptTwice = << >> /\ ptPc = "input"
    /\ PxOff /\ pxPc = "off"
    /\ OvOff /\ ScaleOff /\ MailOff /\ AppOff

NextPost == PostOnce \/ PostTwice

SpecPost == InitPost /\ [][NextPost]_vars

InitPixel ==
    /\ InitComponent
    /\ PtOff
    /\ PxOff /\ pxPc = "idle"
    /\ OvOff /\ ScaleOff /\ MailOff /\ AppOff

NextPixel == SetContrast \/ SetBrightness \/ PreprocessPixel

SpecPixel == InitPixel /\ [][NextPixel]_vars

InitOverlap ==
    /\ InitComponent
    /\ PtOff
    /\ PxOff /\ pxPc = "off"
    /\ OvOff /\ ScaleOff /\ MailOff /\ AppOff

NextOverlap ==
    \/ \E i \in Slots : OvProcessImage(i)
    \/ \E i \in Slots : OvPreprocess(i)
    \/ \E i \in Slots : OvRecognize(i)
    \/ \E i \in Slots : OvReport(i)
    \/ handleImageSelect
    \/ clearImage
    \/ OvSetDpi

SpecOverlap == InitOverlap /\ [][NextOverlap]_vars

InitScale ==
    /\ InitComponent
    /\ PtOff
    /\ PxOff /\ pxPc = "off"
    /\ OvOff /\ ScaleOff /\ MailOff /\ AppOff

NextScale == SetDpi \/ SizeCanvas

SpecScale == InitScale /\ [][NextScale]_vars

InitMail ==
    /\ InitComponent
    /\ PtOff
    /\ PxOff /\ pxPc = "off"
    /\ OvOff /\ ScaleOff /\ MailOff /\ AppOff

NextMail == sendHairstyleNotification \/ RetryDelay \/ attemptEmailSend

SpecMail == InitMail /\ [][NextMail]_vars

NextSettings == SetDpi \/ SetContrast \/ SetBrightness \/ ApplyAPreset \/ UpdateASetting

SpecSettings == InitPixel /\ [][NextSettings]_vars

-----------------------------------------------------------------------------
(* Properties *)

Done == run.pc = "done"

\* the invocation got past the two early returns
Ran == run.status \in { "success", "failed" }

Called(op) == \E i \in DOMAIN run.calls : run.calls[i] = op

Count(op) == Cardinality({ i \in DOMAIN run.calls : run.calls[i] = op })

Threw(op) == \E i \in DOMAIN run.threw : run.threw[i] = op

\* the text of the engine result the orchestrator took its text from
EngineRawText ==
    IF run.staticResult # Null /\ run.staticResult[1].shape = "data"
    THEN run.staticResult[1].text
    ELSE IF run.workerResult # Null THEN run.workerResult[1].text ELSE << >>

\* the confidence an engine result stands for: absent when it reports none,
\* otherwise the reported value rounded to the nearest integer
ReportedConfidence(result) ==
    IF result.confidence = Null THEN Null
    ELSE Some((result.confidence[1] + 5) \div 10)

\* `shown` is `raw` without its leading and trailing whitespace
IsTrimOf(shown, raw) ==
    /\ shown # << >> => Head(shown) \notin SpaceChars /\ shown[Len(shown)] \notin SpaceChars
    /\ \E i \in 0..Len(raw) :
          /\ i + Len(shown) <= Len(raw)
          /\ SubSeq(raw, i + 1, i + Len(shown)) = shown
          /\ \A k \in 1..Len(raw) :
                (k <= i \/ k > i + Len(shown)) => raw[k] \in SpaceChars

\* C1: when createWorker is present, the session's loadLanguage or initialize
\* throws, and the static Tesseract.recognize is present and resolves, the
\* invocation ends in success having called the static recognize once with
\* imageToProcess and the configured language, and its text and confidence are
\* exactly those of that call's result.
C1_FallbackEqualsStatic ==
    ( /\ Done
      /\ run.worker
      /\ (Threw("loadLanguage") \/ Threw("initialize"))
      /\ run.eng[1].recognize
      /\ run.staticResult # Null )
    => /\ run.status = "success"
       /\ Count("Tesseract.recognize") = 1
       /\ run.staticArgs = Some(<< run.imageToProcess[1], run.settings.language >>)
       /\ run.rawText = run.staticResult[1].text
       /\ run.conf = ReportedConfidence(run.staticResult[1])
       /\ confidence = ReportedConfidence(run.staticResult[1])

\* C2: no invocation finishes with a session acquired from createWorker (one
\* that has a terminate member) on which terminate was never called.
C2_SessionReleased ==
    (Done /\ run.worker /\ "terminate" \notin run.lacks) => Called("terminate")

\* C3: whenever a session was acquired and the static Tesseract.recognize is
\* called, worker.terminate was called before that call.
C3_TerminateBeforeFallback ==
    (run.worker /\ Called("Tesseract.recognize"))
    => \E i, j \in DOMAIN run.calls :
          /\ i < j
          /\ run.calls[i] = "terminate"
          /\ run.calls[j] = "Tesseract.recognize"

\* C4: scenario D: the session initializes, worker.recognize throws and the
\* static Tesseract.recognize is missing: the invocation ends in failure with
\* the recognition-failed error, and worker.terminate was called exactly once.
C4_ScenarioD ==
    ( /\ Done
      /\ Called("initialize") /\ ~Threw("initialize")
      /\ Threw("recognize")
      /\ ~run.eng[1].recognize )
    => /\ run.status = "failed"
       /\ error.kind = "RecognitionFailed"
       /\ Count("terminate") = 1

\* C5: the engine is loaded, createWorker is missing or returns no worker, and
\* the static Tesseract.recognize is present: the invocation calls the static
\* recognize with the image and the configured language and reports its text
\* and confidence.
C5_StatelessWhenNoSession ==
    ( /\ Done /\ Ran /\ ~Threw("preprocessImage")
      /\ run.eng[1].recognize
      /\ ~run.worker /\ ~Threw("createWorker") )
    => /\ run.staticArgs = Some(<< run.imageToProcess[1], run.settings.language >>)
       /\ run.staticResult # Null => run.rawText = EngineRawText

\* C6: when no protocol produces a result (createWorker and the static recognize
\* both missing, or the session path throws before a result and the static
\* recognize is missing or throws too), the invocation ends in failure carrying
\* the last underlying error; it never ends in success.
C6_FailsWhenNothingRecognized ==
    ( /\ Done /\ Ran /\ ~Threw("preprocessImage")
      /\ run.workerResult = Null /\ run.staticResult = Null
      /\ \/ ~run.eng[1].createWorker /\ ~run.eng[1].recognize
         \/ /\ run.threw # << >>
            /\ ~run.eng[1].recognize \/ Threw("Tesseract.recognize") )
    => /\ run.status = "failed"
       /\ error.kind = "RecognitionFailed"
       /\ run.threw # << >> => error.message = run.threw[Len(run.threw)]

\* C7: scenario C: window.Tesseract is absent when processImage is called with
\* an image selected: the invocation ends at once with the engine-unavailable
\* error, nothing is preprocessed, no engine operation is called,
\* onTextExtracted is not called, and no extracted text or confidence is shown.
C7_ScenarioC ==
    (Done /\ run.status = "rejected" /\ run.image # Null /\ run.eng = Null)
    => /\ error = ERR_NO_ENGINE
       /\ run.calls = << >>
       /\ run.delivered = << >>
       /\ ~isProcessing
       /\ extractedText = << >>
       /\ confidence = Null

\* C8: postprocessText with post-processing enabled is idempotent: applying it
\* to its own output changes nothing.
C8_PostprocessIdempotent ==
    ptPc = "twice" => ptTwice = ptOnce

\* C9 as stated: with enablePostprocessing false the text reported
\* (setExtractedText, onTextExtracted) is the engine's raw text, unchanged.
C9_ReportedIsRaw ==
    (Done /\ run.status = "success" /\ ~run.settings.enablePostprocessing)
    => /\ extractedText = EngineRawText
       /\ run.delivered = << EngineRawText >>

\* C9 as amended: with enablePostprocessing false the text reported
\* (setExtractedText, onTextExtracted) is the engine's raw text without its
\* leading and trailing whitespace; no other character is added, removed or
\* changed.
C9_ReportedIsTrimmedRaw ==
    (Done /\ run.status = "success" /\ ~run.settings.enablePostprocessing)
    => /\ IsTrimOf(extractedText, EngineRawText)
       /\ run.delivered = << extractedText >>

\* an invocation without post-processing reported "a" for the raw text " a "
C9_Witness ==
    /\ Done /\ run.status = "success" /\ ~run.settings.enablePostprocessing
    /\ EngineRawText = << " ", "a", " " >>
    /\ extractedText = << "a" >>
    /\ run.delivered = << << "a" >> >>

\* C10: with enablePreprocessing false, preprocessImage is not run and the image
\* given to worker.recognize and to the static Tesseract.recognize is the
\* selected file itself.
C10_NoPreprocessingPassThrough ==
    (run.status \in { "running", "success", "failed" }
        /\ ~run.settings.enablePreprocessing)
    => /\ ~Called("preprocessImage")
       /\ run.imageToProcess = Some(FileImage(run.image[1]))
       /\ run.recognizeArg \in { Null, Some(FileImage(run.image[1])) }
       /\ run.staticArgs # Null => run.staticArgs[1][1] = FileImage(run.image[1])

\* an invocation without preprocessing gave the file to both recognize calls
C10_Witness ==
    /\ Done /\ run.status = "success" /\ ~run.settings.enablePreprocessing
    /\ run.recognizeArg = Some(FileImage(run.image[1]))
    /\ run.staticArgs # Null
    /\ run.staticArgs[1][1] = FileImage(run.image[1])

-----------------------------------------------------------------------------
(* The pixel loop: C11, C12, C13 *)

PixelDone == pxPc = "done" /\ ocrSettings.enablePreprocessing

\* the value v is the integer c
ValueIs(v, c) == (~v.nan) /\ v.n = c * v.d

\* C11: after the pixel loop with preprocessing enabled, the pixel's red, green
\* and blue are equal and are 0 or 255, for every input pixel and every stored
\* contrast and brightness, contrast 259 and values off the sliders included.
C11_BinaryOutput ==
    PixelDone =>
        /\ pxOut[1] \in {0, 255}
        /\ pxOut[2] = pxOut[1]
        /\ pxOut[3] = pxOut[1]

\* contrast 259: the factor is Infinity, a channel at 128 is NaN, the pixel is black
C11_Witness ==
    /\ PixelDone
    /\ ocrSettings.contrast = 259
    /\ pxMid[1].nan
    /\ pxOut[1] = 0

\* C12: with contrast 100 and brightness 100 the brightness step and the
\* contrast step leave every channel as it was.
C12_DefaultsChangeNothing ==
    (PixelDone /\ ocrSettings.contrast = 100 /\ ocrSettings.brightness = 100) =>
        \A i \in 1..3 : ValueIs(pxMid[i], pxIn[i])

-----------------------------------------------------------------------------
(* Confidence: C14 *)

\* the engine result the orchestrator took its text and confidence from, if any
EngineResult ==
    IF run.staticResult # Null /\ run.staticResult[1].shape = "data"
    THEN run.staticResult
    ELSE IF run.workerResult # Null /\ run.workerResult[1].shape # "null"
         THEN run.workerResult
         ELSE Null

\* C14: the confidence of a successful invocation is null exactly when the
\* engine result reports none; a reported confidence, 0 included, is shown as
\* that value rounded to the nearest integer, within 0..100, on the session
\* path and on the static path alike.
C14_ConfidenceAsReported ==
    (Done /\ run.status = "success") =>
        /\ confidence = (IF EngineResult = Null THEN Null
                         ELSE ReportedConfidence(EngineResult[1]))
        /\ confidence # Null => confidence[1] \in 0..100

-----------------------------------------------------------------------------
(* Settings: C15 *)

-----------------------------------------------------------------------------
(* postprocessText: C16 *)

\* C16: the output of postprocessText with post-processing enabled contains no
\* '|', no two whitespace characters in a row, and no whitespace at its start
\* or end.
C16_PostprocessedShape ==
    ptPc \in { "once", "twice" } =>
        /\ \A i \in DOMAIN ptOnce : ptOnce[i] # "|"
        /\ \A i \in 1..(Len(ptOnce) - 1) :
              ~(ptOnce[i] \in SpaceChars /\ ptOnce[i + 1] \in SpaceChars)
        /\ ptOnce # << >> =>
              Head(ptOnce) \notin SpaceChars /\ ptOnce[Len(ptOnce)] \notin SpaceChars

\* scenario B: "5O|ar vvind" comes out as "501ar wind"
C16_Witness ==
    /\ ptPc = "once"
    /\ ptIn = ScenarioB
    /\ ptOnce = << "5", "0", "1", "a", "r", " ", "w", "i", "n", "d" >>

-----------------------------------------------------------------------------
(* Scenario A: C17 *)

He11o == << "H", "e", "1", "1", "o" >>

\* C17: scenario A: preprocessing and post-processing are both disabled and
\* the engine result the invocation takes is the text "He11o" with no
\* confidence (no static call throwing after it): the invocation ends in
\* success, the text shown and delivered is exactly "He11o", the confidence is
\* null and no error is set.
C17_ScenarioA ==
    ( /\ Done /\ Ran
      /\ ~run.settings.enablePreprocessing
      /\ ~run.settings.enablePostprocessing
      /\ EngineResult # Null
      /\ EngineResult[1].text = He11o
      /\ EngineResult[1].confidence = Null
      /\ ~Threw("Tesseract.recognize") )
    => /\ run.status = "success"
       /\ extractedText = He11o
       /\ run.delivered = << He11o >>
       /\ confidence = Null
       /\ error = NO_ERROR

\* worker.recognize returned "He11o" and nothing threw
C17_Witness ==
    /\ Done /\ run.status = "success"
    /\ ~run.settings.enablePreprocessing
    /\ ~run.settings.enablePostprocessing
    /\ run.threw = << >>
    /\ Called("recognize")
    /\ EngineResult # Null
    /\ EngineResult[1].text = He11o
    /\ extractedText = He11o
    /\ confidence = Null
    /\ error = NO_ERROR

-----------------------------------------------------------------------------
(* Stages, failure and retries: C18, C19, C20 *)

StageRank(stage) ==
    CASE stage = "Preprocessing"  -> 1
      [] stage = "Recognizing"    -> 2
      [] stage = "Postprocessing" -> 3
      [] stage = "Done"           -> 4

Entered(stage) == \E i \in DOMAIN run.stages : run.stages[i] = stage

\* C18: an invocation enters its stages in the one order Preprocessing,
\* Recognizing, Postprocessing, Done, none twice and none after a later one;
\* Preprocessing only with enablePreprocessing, Postprocessing only with
\* enablePostprocessing; a failed invocation is over, having entered neither
\* Postprocessing nor Done.
C18_StageOrder ==
    /\ \A i, j \in DOMAIN run.stages :
          i < j => StageRank(run.stages[i]) < StageRank(run.stages[j])
    /\ Entered("Preprocessing") => run.settings.enablePreprocessing
    /\ Entered("Postprocessing") => run.settings.enablePostprocessing
    /\ run.status = "failed" =>
          /\ run.pc = "done"
          /\ ~Entered("Postprocessing")
          /\ ~Entered("Done")

\* an invocation that went through all four stages
C18_Witness ==
    /\ Done
    /\ run.stages = << "Preprocessing", "Recognizing", "Postprocessing", "Done" >>

\* C19: an invocation that ends in failure (preprocessImage rejects, or the
\* engine stage throws out of its inner handler) has set the error and
\* reported nothing: setExtractedText, setConfidence and onTextExtracted were
\* not called, and the text and confidence shown are those from before it.
C19_FailureReportsNothing ==
    (Done /\ run.status = "failed") =>
        /\ error.kind = "RecognitionFailed"
        /\ ~Called("setExtractedText")
        /\ ~Called("setConfidence")
        /\ ~Called("onTextExtracted")
        /\ run.delivered = << >>
        /\ extractedText = run.before[1]
        /\ confidence = run.before[2]

\* worker.recognize returned a text, worker.terminate threw and then the static
\* recognize threw: the invocation failed with a text in hand
C19_Witness ==
    /\ Done /\ run.status = "failed"
    /\ run.text # << >>
    /\ Threw("Tesseract.recognize")
    /\ error.kind = "RecognitionFailed"
    /\ run.delivered = << >>

WorkerPathOps ==
    { "createWorker", "load", "loadLanguage", "initialize", "setParameters",
      "recognize", "terminate" }

\* C20: within one invocation createWorker, worker.recognize and the static
\* Tesseract.recognize are each called at most once, and the static one only
\* after an operation of the session path threw.
C20_NoRetry ==
    /\ Count("createWorker") <= 1
    /\ Count("recognize") <= 1
    /\ Count("Tesseract.recognize") <= 1
    /\ Called("Tesseract.recognize") =>
          /\ run.threw # << >>
          /\ run.threw[1] \in WorkerPathOps

\* worker.recognize threw and the static recognize was called: one call each
C20_Witness ==
    /\ Done
    /\ Count("createWorker") = 1
    /\ Count("recognize") = 1
    /\ Count("Tesseract.recognize") = 1
    /\ Threw("recognize")

-----------------------------------------------------------------------------
(* Overlapping invocations: C21 *)

\* the image invocation i is to hand to the engine: made from its own source
\* image under its own settings
OwnImage(i) ==
    IF inv[i].settings.enablePreprocessing
    THEN DataUrl(inv[i].image[1], inv[i].settings)
    ELSE FileImage(inv[i].image[1])

\* C21: whatever the interleaving of two processImage invocations, the image
\* each one passes to the engine is the one produced from its own source image
\* and its own settings.
C21_OwnImageToEngine ==
    \A i \in Slots :
        inv[i].recognizeArg # Null => inv[i].recognizeArg = Some(OwnImage(i))

\* both invocations are in flight past recognition, on different images and
\* under different dpi
C21_Witness ==
    /\ inv[1].pc = "report" /\ inv[2].pc = "report"
    /\ inv[1].image # inv[2].image
    /\ inv[1].settings.dpi # inv[2].settings.dpi
    /\ inv[1].recognizeArg = Some(OwnImage(1))
    /\ inv[2].recognizeArg = Some(OwnImage(2))

-----------------------------------------------------------------------------
(* Capability probing and the session's call order: C22, C23 *)

\* C22: whatever operations the engine and the worker expose, every operation
\* processImage has called was found present as a function before the call:
\* a worker member it calls is one it probed and found, never one it found
\* missing, and createWorker and the static recognize are called only on an
\* engine that has them.
C22_CallsOnlyProbed ==
    \A i \in DOMAIN run.calls :
        LET op == run.calls[i]
        IN  /\ op \in WorkerMethods => (op \in run.has /\ op \notin run.lacks)
            /\ op = "createWorker" => run.eng[1].createWorker
            /\ op = "Tesseract.recognize" => run.eng[1].recognize

\* a worker without load and setParameters: loadLanguage, initialize and
\* recognize were called, load and setParameters were not
C22_Witness ==
    /\ Done
    /\ run.lacks = { "load", "setParameters" }
    /\ Called("loadLanguage") /\ Called("initialize") /\ Called("recognize")
    /\ ~Called("load") /\ ~Called("setParameters")

SessionRank(op) ==
    CASE op = "load"          -> 1
      [] op = "loadLanguage"  -> 2
      [] op = "initialize"    -> 3
      [] op = "setParameters" -> 4
      [] op = "recognize"     -> 5
      [] op = "terminate"     -> 6

\* C23: the calls on a session come in the order load, loadLanguage,
\* initialize, setParameters, recognize, terminate, each at most once, and
\* worker.recognize is called only on a session that loadLanguage and
\* initialize have set up with the configured language.
C23_SessionOrder ==
    /\ \A i, j \in DOMAIN run.calls :
          (i < j /\ run.calls[i] \in WorkerMethods /\ run.calls[j] \in WorkerMethods)
          => SessionRank(run.calls[i]) < SessionRank(run.calls[j])
    /\ Called("recognize") =>
          /\ Called("initialize")
          /\ run.langArgs = << run.settings.language, run.settings.language >>

-----------------------------------------------------------------------------
(* Presets: C24 *)

\* the fields a preset overrides
OverrideKeys(preset) ==
    IF preset = "lowquality"
    THEN { "psm", "dpi", "contrast", "brightness", "enablePreprocessing" }
    ELSE { "psm", "dpi", "contrast", "brightness" }

\* << psm, dpi, contrast, brightness >> of a preset
Overrides(preset) ==
    CASE preset = "document"    -> << 6, 300, 120, 110 >>
      [] preset = "handwriting" -> << 13, 400, 140, 105 >>
      [] preset = "screenshot"  -> << 3, 200, 110, 100 >>
      [] preset = "lowquality"  -> << 6, 400, 150, 115 >>

\* C24: right after applyPreset(p) with p one of document, handwriting,
\* screenshot, lowquality, the settings are DEFAULT_SETTINGS with only that
\* preset's overrides, whatever they were before (so the preset applied twice
\* gives what it gives once, and the last preset wins); after applyPreset of
\* any other name the settings are what they were.
C24_PresetOverDefaults ==
    lastPreset # Null =>
        LET p == lastPreset[1].name
        IN  IF p \in { "document", "handwriting", "screenshot", "lowquality" }
            THEN /\ \A k \in (DOMAIN DEFAULT_SETTINGS) \ OverrideKeys(p) :
                        ocrSettings[k] = DEFAULT_SETTINGS[k]
                 /\ << ocrSettings.psm, ocrSettings.dpi, ocrSettings.contrast,
                       ocrSettings.brightness >> = Overrides(p)
                 /\ ocrSettings.enablePreprocessing
            ELSE ocrSettings = lastPreset[1].before

\* handwriting applied over settings that had another language, post-processing
\* off and another preset's contrast: language and post-processing are back at
\* their defaults
C24_Witness ==
    /\ lastPreset # Null
    /\ lastPreset[1].name = "handwriting"
    /\ lastPreset[1].before.language = "eng"
    /\ ~lastPreset[1].before.enablePostprocessing
    /\ lastPreset[1].before.contrast = 150
    /\ ocrSettings.language = "jpn+eng"
    /\ ocrSettings.enablePostprocessing
    /\ ocrSettings.psm = 13 /\ ocrSettings.contrast = 140

-----------------------------------------------------------------------------
(* The pixel transform against its reference: C25 *)

\* the reference: brightness offset and clamp, contrast factor around 128 and
\* clamp, luma rounded, 255 when luma > 128 and 0 otherwise, alpha kept; the
\* contrast it uses is at most 258, so that its factor is always defined
ReferencePixel(settings, px) ==
    LET guarded == [settings EXCEPT !.contrast = Min(@, 258)]
        c == [i \in 1..3 |-> Contrast(guarded, Clamp255(px[i] + (settings.brightness - 100)))]
        luma == Gray(c[1], c[2], c[3])
        out == IF luma.n > 128 THEN 255 ELSE 0
    IN  << out, out, out, px[4] >>

-----------------------------------------------------------------------------
(* The scale factor: C26 *)

Sized == scale.pc = "done"

\* C26 as stated: the processed image's width and height are the source's
\* multiplied by max(1, dpi / 150), never smaller than the source's, and
\* unchanged for dpi <= 150.
C26_SizeIsProduct ==
    Sized => \A k \in 1..2 :
        /\ scale.dpi > 150 => scale.canvas[k] * 150 = scale.img[k] * scale.dpi
        /\ scale.dpi <= 150 => scale.canvas[k] = scale.img[k]
        /\ scale.canvas[k] >= scale.img[k]

\* C26 as amended: the processed image's width and height are the source's
\* multiplied by max(1, dpi / 150) with the fraction of the product dropped;
\* they are never smaller than the source's, and unchanged for dpi <= 150.
C26_SizeIsProductFloor ==
    Sized => \A k \in 1..2 :
        /\ scale.dpi > 150 =>
              /\ scale.canvas[k] * 150 <= scale.img[k] * scale.dpi
              /\ scale.img[k] * scale.dpi < (scale.canvas[k] + 1) * 150
        /\ scale.dpi <= 150 => scale.canvas[k] = scale.img[k]
        /\ scale.canvas[k] >= scale.img[k]

\* a 100 x 640 image at dpi 200 gets a 133 x 853 canvas
C26_Witness ==
    /\ Sized
    /\ scale.dpi = 200
    /\ scale.img = << 100, 640 >>
    /\ scale.canvas = << 133, 853 >>

-----------------------------------------------------------------------------
(* Inputs left alone: C27 *)

\* C27: from its call to its end and after it, on success, on failure and on
\* an early exit, an invocation of processImage leaves ocrSettings and
\* selectedImage as they were when it was called.
C27_InputsUnchanged ==
    run.status # "none" =>
        /\ ocrSettings = run.settings
        /\ selectedImage = run.image

\* a failed invocation under settings other than the defaults
C27_Witness ==
    /\ Done /\ run.status = "failed"
    /\ selectedImage # Null
    /\ selectedImage = run.image
    /\ ocrSettings # DEFAULT_SETTINGS
    /\ ocrSettings = run.settings

-----------------------------------------------------------------------------
(* Results of a run whose image is gone: C28 *)

\* C28: the extracted text shown belongs to the image selected now: a run whose
\* image was cleared or replaced while it was in flight does not set the text
\* and confidence when it completes.
C28_ResultOfSelectedImage ==
    /\ extractedText # << >> =>
          (selectedImage # Null /\ extractedText = << selectedImage[1] >>)
    /\ \A i \in Slots :
          inv[i].shownFor # Null => inv[i].shownFor[1] = inv[i].image

-----------------------------------------------------------------------------
(* The notification's attempts and retry count: C29, C30 *)

Returned == mail.pc = "done"

\* C29: a call of sendHairstyleNotification makes at most maxRetries + 1 = 4
\* attempts; no attempt follows a successful one; when the first attempt fails
\* with INVALID_EMAIL or MISSING_USERNAME it is the only one, with no onRetry
\* call and no delay; and a call that has ended has returned a result.
C29_BoundedAttempts ==
    /\ Len(mail.attempts) <= 4
    /\ \A i \in DOMAIN mail.attempts :
          mail.attempts[i].success => i = Len(mail.attempts)
    /\ ( /\ mail.attempts # << >>
         /\ mail.attempts[1].error \in { Some("INVALID_EMAIL"), Some("MISSING_USERNAME") } )
       => /\ Len(mail.attempts) = 1
          /\ mail.retries = << >>
          /\ mail.delays = << >>
          /\ Returned
    /\ Returned => mail.returned # Null
    /\ mail.pc \in { "idle", "attempt", "retry", "done" }

\* a call with an invalid address ended after its single attempt
C29_Witness ==
    /\ Returned
    /\ ~validateEmail(mail.data[1].userEmail)
    /\ Len(mail.attempts) = 1
    /\ mail.attempts[1].error = Some("INVALID_EMAIL")
    /\ mail.retries = << >>
    /\ mail.returned # Null

\* C30: the retryCount of the result returned is the number of retries the call
\* performed: the number of onRetry calls, one less than the attempts made.
C30_RetryCountIsRetries ==
    Returned =>
        /\ mail.returned[1].retryCount = Len(mail.retries)
        /\ mail.returned[1].retryCount = Len(mail.attempts) - 1

-----------------------------------------------------------------------------
(* onRetry and the delays: C31 *)

\* C31: before each attempt after the first, onRetry is called once, with
\* k = 1, 2, 3 in this order and the error code of the attempt just failed, and
\* the call then waits 1000, 2000, 4000 milliseconds (min(1000 * 2^(k-1),
\* 10000)) before the attempt; the delays never decrease and never exceed
\* maxDelay.
C31_RetriesAndDelays ==
    /\ Len(mail.retries) = Len(mail.delays)
    /\ Len(mail.retries) =
          (IF mail.pc = "attempt" THEN Len(mail.attempts)
           ELSE IF mail.attempts = << >> THEN 0 ELSE Len(mail.attempts) - 1)
    /\ \A k \in DOMAIN mail.retries :
          /\ mail.retries[k] = << k, mail.attempts[k].error[1] >>
          /\ ~mail.attempts[k].success
          /\ mail.delays[k] = << 1000, 2000, 4000 >>[k]
          /\ mail.delays[k] <= 10000
          /\ k > 1 => mail.delays[k - 1] <= mail.delays[k]

\* four attempts: three retries, announced with the errors of the first three
C31_Witness ==
    /\ Returned
    /\ Len(mail.attempts) = 4
    /\ mail.retries = << << 1, "TIMEOUT" >>, << 2, "UNKNOWN_ERROR" >>,
                         << 3, "NETWORK_ERROR" >> >>
    /\ mail.delays = << 1000, 2000, 4000 >>

-----------------------------------------------------------------------------
(* The processing flag: C32 *)

\* C32: when every await of an invocation eventually resolves or rejects, an
\* invocation that has set isProcessing to true eventually sets it back to
\* false with the progress message cleared, on success and on every failure
\* path; and an invocation that left at an early exit has not set it.
C32_ProcessingEnds ==
    /\ isProcessing ~> (~isProcessing /\ progress = PROGRESS_NONE)
    /\ [](run.status = "rejected" => ~isProcessing)

\* an invocation that failed in the static recognize after the session path
\* threw: the flag is down and the progress message is empty
C32_Witness ==
    /\ Done /\ run.status = "failed"
    /\ Called("createWorker")
    /\ Threw("Tesseract.recognize")
    /\ ~isProcessing
    /\ progress = PROGRESS_NONE

-----------------------------------------------------------------------------
(* The simulator after logout: C33 *)

\* C33: with nobody logged in the simulator is reset: no generated images, an
\* idle emailStatus and an empty emailMessage, also when a generateImages call
\* was in flight at logout and finishes afterwards; and a call during which
\* the user logged out records no send.
C33_StaysReset ==
    /\ sim.userAccount = Null =>
          /\ sim.generatedImages = << >>
          /\ sim.emailStatus = "idle"
          /\ sim.emailMessage = NoMessage
    /\ gen.loggedOut => gen.recorded = 0

-----------------------------------------------------------------------------
(* emailStatus during a generateImages call: C34 *)

\* idle, sending, zero or more retrying, then success or error, and its prefixes
RECURSIVE IsStatusRun(_, _)
IsStatusRun(statuses, rank) ==
    \/ statuses = << >>
    \/ LET r == CASE Head(statuses) = "idle" -> 1
                  [] Head(statuses) = "sending" -> 2
                  [] Head(statuses) = "retrying" -> 3
                  [] OTHER -> 4
       IN  /\ r > rank
           /\ IsStatusRun(Tail(statuses), r)

\* C34: during a generateImages call emailStatus goes through idle, sending,
\* retrying (while rounds are retried), then success or error; when the call
\* has completed emailStatus is success or error, isGenerating is false and
\* the call has made exactly one recordSend.
C34_StatusOrder ==
    /\ gen.pc # "idle" => IsStatusRun(gen.statuses, 0)
    /\ gen.pc = "done" =>
          /\ gen.statuses[Len(gen.statuses)] \in { "success", "error" }
          /\ ~sim.isGenerating
          /\ gen.recorded = 1

-----------------------------------------------------------------------------
(* The monitor's history: C35 *)

\* C35: after any number of recordSend calls the history holds at most 100
\* records, and they are the records of the most recent calls in the order
\* of the calls: the record at position i is that of call
\* calls - length + i, with the arguments that call was given in SpecMonitor
\* (free in the first calls, those of the call before afterwards).
C35_LatestHundred ==
    LET h == monitor.sendHistory
    IN  /\ Len(h) <= 100
        /\ Len(h) = Min(monitor.calls, 100)
        /\ \A i \in DOMAIN h :
              /\ h[i].timestamp = monitor.calls - Len(h) + i
              /\ h[i].timestamp > MaxVaried /\ i > 1 => ArgsOf(h[i]) = ArgsOf(h[i - 1])

\* more than 100 calls were made: the first three records are gone and the
\* history starts at the fourth call
C35_Witness ==
    /\ monitor.calls = 103
    /\ Len(monitor.sendHistory) = 100
    /\ monitor.sendHistory[1].timestamp = 4
    /\ monitor.sendHistory[100].timestamp = 103
    /\ ~monitor.sendHistory[100].success

-----------------------------------------------------------------------------
(* The image index: C36 *)

\* C36: whenever generatedImages is non-empty, currentImageIndex is one of its
\* (zero-based) indices; from there next goes to the following image and from
\* the last to the first, prev goes to the preceding image and from the first
\* to the last, and next followed by prev comes back to the same index.
C36_IndexValid ==
    LET n == Len(sim.generatedImages)
        i == sim.currentImageIndex
    IN  n > 0 =>
          /\ 0 <= i /\ i < n
          /\ NextIndex(i, n) = (i + 1) % n
          /\ PrevIndex(i, n) = (i + n - 1) % n
          /\ PrevIndex(NextIndex(i, n), n) = i

\* the last image is shown after pressing prev on the first, a generateImages
\* call has been made since, and next will wrap to the first image
C36_Witness ==
    /\ sim.generatedImages = images
    /\ sim.currentImageIndex = Len(images) - 1
    /\ monitor.calls = 1
    /\ Generating
    /\ NextIndex(sim.currentImageIndex, Len(sim.generatedImages)) = 0

-----------------------------------------------------------------------------
(* Account creation: C37 *)

\* the form the claim calls valid
IsValidForm(data) ==
    /\ trim(data.name) # << >>
    /\ validateEmail(data.email)
    /\ Len(data.password) >= 6
    /\ data.confirmPassword = data.password

\* C37: an account is stored and onAccountCreated is called only for a form
\* that was valid when it was submitted (name not blank, email of the address
\* pattern, password of six characters or more, confirmPassword equal to it),
\* and with that form's email and name; a submit of an invalid form stores
\* nothing, calls nothing and leaves isLoading false; once a valid submit has
\* run to its end isLoading is false again.
C37_OnlyValidForms ==
    /\ form.pc \in { "saving", "done", "failed" } => IsValidForm(form.submitted[1])
    /\ form.pc = "rejected" =>
          /\ ~IsValidForm(form.submitted[1])
          /\ ~form.isLoading
          /\ form.stored = Null
          /\ form.created = << >>
    /\ form.pc \in { "done", "failed" } => ~form.isLoading
    /\ (form.stored # Null \/ form.created # << >>) =>
          /\ form.pc = "done"
          /\ form.stored = Some([name |-> form.submitted[1].name,
                                 email |-> form.submitted[1].email])
          /\ form.created = << << form.submitted[1].email, form.submitted[1].name >> >>

\* a first submit with confirmPassword different from the password was
\* rejected; the corrected form was submitted and the account created
C37_Witness ==
    /\ form.pc = "done"
    /\ form.submitted[1].password = << "q", "q", "q", "q", "q", "q" >>
    /\ form.created = << << << "a", "@", "b", ".", "c" >>, << "n" >> >> >>
    /\ form.stored # Null
    /\ ~form.isLoading

-----------------------------------------------------------------------------
(* The order of the correction rules: C38 *)

\* the text as it is when rule k of the list is about to be applied
BeforeRule(k, text) == ApplyRules(SubSeq(corrections, 1, k - 1), text)

\* C38: the output of postprocessText with post-processing on holds none of
\* I, l, |, O, o, S, s, and the rule replacing '|' by 'l', applied at its place
\* in the list, leaves the text as it found it.
C38_LookalikesGone ==
    ptPc # "input" =>
        /\ \A k \in DOMAIN ptOnce :
              ptOnce[k] \notin { "I", "l", "|", "O", "o", "S", "s" }
        /\ \E k \in DOMAIN corrections : corrections[k].to = << "l" >>
        /\ \A k \in DOMAIN corrections :
              corrections[k].to = << "l" >> =>
                  ApplyRule(corrections[k], BeforeRule(k, ptIn)) = BeforeRule(k, ptIn)

\* the seven characters went in, '|' among them, and came out as digits
C38_Witness ==
    /\ ptPc = "once"
    /\ ptIn = Lookalikes
    /\ ptOnce = << "1", "1", "1", "0", "0", "5", "5" >>
    /\ "|" \notin { BeforeRule(8, ptIn)[k] : k \in DOMAIN BeforeRule(8, ptIn) }

====
